---- MODULE Spec2Model ----
(***************************************************************************)
(* Invoice engine: validateDraft -> computeInvoice -> formatInvoice, and   *)
(* the processInvoice pipeline that composes them.                         *)
(*                                                                         *)
(* JavaScript values are tagged records (field t is the run-time type).    *)
(* Strings are sequences of one-character strings, so that trim,           *)
(* toUpperCase, parseFloat and the date pattern act on characters.         *)
(* Numbers are a scaled-down binary floating point: a finite number is an  *)
(* integer count of 1/Unit, kept to Precision significant bits, rounded to *)
(* nearest (ties to even) after every operation, overflowing to Infinity;  *)
(* NaN and the infinities are values of their own.                         *)
(* An issue is modelled by its code, path and hint (the message text is    *)
(* not modelled).                                                          *)
(***************************************************************************)
EXTENDS Integers, Sequences, FiniteSets, TLC

\* -------------------------------------------------------------------------
\* Bounds of the model
\* -------------------------------------------------------------------------
FracBits == 2
Precision == 5
MaxExp == 4
MaxItems == 3
MaxEdits == 1
MaxMonth == 13
MaxDay == 32
MaxRow == 30

Unit == 2^FracBits
MaxFinite == (2^Precision - 1) * 2^MaxExp

\* -------------------------------------------------------------------------
\* Numbers (the JavaScript number type, scaled down)
\* -------------------------------------------------------------------------
Fin(m) == [k |-> "fin", m |-> m]
PosInf == [k |-> "inf", m |-> 1]
NegInf == [k |-> "inf", m |-> -1]
NaN == [k |-> "nan", m |-> 0]
Zero == Fin(0)

Abs(i) == IF i < 0 THEN -i ELSE i
Sign(i) == IF i < 0 THEN -1 ELSE 1

\* a/q rounded to the nearest integer, ties to the even one
RoundHalfEven(a, q) ==
  IF 2 * (a % q) > q \/ (2 * (a % q) = q /\ (a \div q) % 2 = 1)
  THEN (a \div q) + 1
  ELSE a \div q

\* the exponent of the number nearest to a/d: the least e with a/d < 2^(e + Precision)
ExponentOf(a, d) ==
  CHOOSE e \in 0..(MaxExp + 1) :
    /\ a < d * 2^e * 2^Precision
    /\ \A y \in 0..(MaxExp + 1) : a < d * 2^y * 2^Precision => e <= y

\* the number of magnitude mag (counted in 1/Unit) and sign sgn
Finite(sgn, mag) ==
  IF mag > MaxFinite THEN [k |-> "inf", m |-> sgn] ELSE [k |-> "fin", m |-> sgn * mag]

\* a/d (a >= 0) rounded to Precision significant bits at exponent e
RoundAtExponent(sgn, a, d, e) == Finite(sgn, RoundHalfEven(a, d * 2^e) * 2^e)

\* The number nearest to the rational n/d (d > 0), n/d counted in 1/Unit.
FloatOfRatio(n, d) ==
  IF Abs(n) >= d * 2^(MaxExp + 1) * 2^Precision
  THEN [k |-> "inf", m |-> Sign(n)]
  ELSE RoundAtExponent(Sign(n), Abs(n), d, ExponentOf(Abs(n), d))

\* x * y
FMul(x, y) ==
  IF x.k = "nan" \/ y.k = "nan" THEN NaN
  ELSE IF x.k = "inf" \/ y.k = "inf"
       THEN IF x.m = 0 \/ y.m = 0 THEN NaN
            ELSE [k |-> "inf", m |-> Sign(x.m) * Sign(y.m)]
       ELSE FloatOfRatio(x.m * y.m, Unit)

\* x + y
FAdd(x, y) ==
  IF x.k = "nan" \/ y.k = "nan" THEN NaN
  ELSE IF x.k = "inf" /\ y.k = "inf"
       THEN IF x.m = y.m THEN x ELSE NaN
       ELSE IF x.k = "inf" THEN x
       ELSE IF y.k = "inf" THEN y
       ELSE FloatOfRatio(x.m + y.m, 1)

\* x < y
FLess(x, y) ==
  IF x.k = "nan" \/ y.k = "nan" THEN FALSE
  ELSE IF x.k = "inf" THEN x.m < 0 /\ ~(y.k = "inf" /\ y.m < 0)
  ELSE IF y.k = "inf" THEN y.m > 0
  ELSE x.m < y.m

\* x === 0
FIsZero(x) == x.k = "fin" /\ x.m = 0

\* -------------------------------------------------------------------------
\* JavaScript values
\* -------------------------------------------------------------------------
Undefined == [t |-> "undefined"]
Null == [t |-> "null"]
Bool(b) == [t |-> "boolean", b |-> b]
Str(s) == [t |-> "string", s |-> s]
Num(x) == [t |-> "number", n |-> x]
\* A Date object: an invalid date, or the UTC calendar day it denotes.
DateObj(valid, y, m, d) == [t |-> "date", valid |-> valid, y |-> y, mo |-> m, d |-> d]
Arr(a) == [t |-> "array", a |-> a]
Obj(o) == [t |-> "object", o |-> o]

\* obj[field]
Get(obj, field) ==
  IF obj.t = "object" /\ field \in DOMAIN obj.o THEN obj.o[field] ELSE Undefined

\* the truthiness of a validator's return value
Truthy(v) ==
  CASE v.t = "undefined" -> FALSE
    [] v.t = "null" -> FALSE
    [] v.t = "boolean" -> v.b
    [] v.t = "string" -> v.s # <<>>
    [] v.t = "number" -> ~(v.n.k = "nan" \/ FIsZero(v.n))
    [] OTHER -> TRUE

\* isObject without its Array.isArray test
isObjectOrArray(value) == value.t \in {"object", "date", "array"}

isObject(value) == value.t \in {"object", "date"}
isString(value) == value.t = "string"
isNumber(value) == value.t = "number" /\ value.n.k # "nan"
isArray(value) == value.t = "array"

\* -------------------------------------------------------------------------
\* Strings
\* -------------------------------------------------------------------------
WhiteSpace == {" ", "\n"}
Digits == <<"0", "1", "2", "3", "4", "5", "6", "7", "8", "9">>
LowerCase == <<"a", "b", "c", "d", "e", "f", "g", "h", "i", "j", "k", "l", "m",
               "n", "o", "p", "q", "r", "s", "t", "u", "v", "w", "x", "y", "z">>
UpperCase == <<"A", "B", "C", "D", "E", "F", "G", "H", "I", "J", "K", "L", "M",
               "N", "O", "P", "Q", "R", "S", "T", "U", "V", "W", "X", "Y", "Z">>

isDigit(c) == \E i \in 1..10 : Digits[i] = c
DigitValue(c) == (CHOOSE i \in 1..10 : Digits[i] = c) - 1

RECURSIVE TrimStart(_)
TrimStart(s) ==
  IF s # <<>> /\ Head(s) \in WhiteSpace THEN TrimStart(Tail(s)) ELSE s

RECURSIVE TrimEnd(_)
TrimEnd(s) ==
  IF s # <<>> /\ s[Len(s)] \in WhiteSpace THEN TrimEnd(SubSeq(s, 1, Len(s) - 1)) ELSE s

\* String.prototype.trim
trim(s) == TrimEnd(TrimStart(s))

UpperChar(c) ==
  IF \E i \in 1..26 : LowerCase[i] = c
  THEN UpperCase[CHOOSE i \in 1..26 : LowerCase[i] = c]
  ELSE c

\* String.prototype.toUpperCase
toUpperCase(s) == [i \in 1..Len(s) |-> UpperChar(s[i])]

\* number of consecutive decimal digits of s from position i on
RECURSIVE DigitRun(_, _)
DigitRun(s, i) ==
  IF i <= Len(s) /\ isDigit(s[i]) THEN 1 + DigitRun(s, i + 1) ELSE 0

\* the value of the decimal digits s[i .. i+n-1]
RECURSIVE DigitsValue(_, _, _)
DigitsValue(s, i, n) ==
  IF n = 0 THEN 0 ELSE 10 * DigitsValue(s, i, n - 1) + DigitValue(s[i + n - 1])

StartsWithAt(s, i, w) ==
  i + Len(w) - 1 <= Len(s) /\ SubSeq(s, i, i + Len(w) - 1) = w

\* 1 when s has a sign at position 1
SignLen(s) == IF s # <<>> /\ s[1] \in {"+", "-"} THEN 1 ELSE 0

\* the number sgn * mant * 10^sc
Decimal(sgn, mant, sc) ==
  IF sc >= 0 THEN FloatOfRatio(sgn * mant * 10^sc * Unit, 1)
  ELSE FloatOfRatio(sgn * mant * Unit, 10^(-sc))

\* the exponent part of a decimal literal at position pE of s: 0 when there
\* is none (an e that no digit follows is not part of the literal)
ExponentAt(s, pE) ==
  IF ~(pE <= Len(s) /\ s[pE] \in {"e", "E"}) THEN 0
  ELSE IF pE + 1 <= Len(s) /\ s[pE + 1] \in {"+", "-"}
  THEN (IF s[pE + 1] = "-" THEN -1 ELSE 1)
       * DigitsValue(s, pE + 2, DigitRun(s, pE + 2))
  ELSE DigitsValue(s, pE + 1, DigitRun(s, pE + 1))

\* a literal with nInt integer digits at p0 and nFrac fraction digits at pF,
\* its exponent part, if any, at pE
DecimalAt(s, sgn, p0, nInt, pF, nFrac, pE) ==
  IF nInt + nFrac = 0 THEN NaN
  ELSE Decimal(sgn,
               DigitsValue(s, p0, nInt) * 10^nFrac + DigitsValue(s, pF, nFrac),
               ExponentAt(s, pE) - nFrac)

\* the literal from position p0 on, after nInt integer digits
FractionAt(s, sgn, p0, nInt) ==
  IF p0 + nInt <= Len(s) /\ s[p0 + nInt] = "."
  THEN DecimalAt(s, sgn, p0, nInt, p0 + nInt + 1, DigitRun(s, p0 + nInt + 1),
                 p0 + nInt + 1 + DigitRun(s, p0 + nInt + 1))
  ELSE DecimalAt(s, sgn, p0, nInt, p0 + nInt, 0, p0 + nInt)

\* the unsigned literal from position p0 on
UnsignedAt(s, sgn, p0) ==
  IF StartsWithAt(s, p0, <<"I", "n", "f", "i", "n", "i", "t", "y">>)
  THEN [k |-> "inf", m |-> sgn]
  ELSE FractionAt(s, sgn, p0, DigitRun(s, p0))

SignedLiteral(s) ==
  UnsignedAt(s, IF SignLen(s) = 1 /\ s[1] = "-" THEN -1 ELSE 1, SignLen(s) + 1)

\* parseFloat: leading white space is skipped, then the longest prefix that is
\* a decimal literal (sign, Infinity, digits, fraction, exponent) is read;
\* NaN when there is none.  (-0 is read as 0.)
parseFloat(str) == SignedLiteral(TrimStart(str))

\* ISO_DATE_REGEX.test: /^\d{4}-\d{2}-\d{2}$/
ISO_DATE_REGEX(s) ==
  /\ Len(s) = 10
  /\ \A i \in {1, 2, 3, 4, 6, 7, 9, 10} : isDigit(s[i])
  /\ s[5] = "-"
  /\ s[8] = "-"

\* the decimal digits of n, left-padded with zeros to width w
RECURSIVE PadDigits(_, _)
PadDigits(n, w) ==
  IF w = 0 THEN <<>> ELSE Append(PadDigits(n \div 10, w - 1), Digits[(n % 10) + 1])

\* -------------------------------------------------------------------------
\* Dates
\* -------------------------------------------------------------------------
IsLeapYear(y) == (y % 4 = 0 /\ y % 100 # 0) \/ y % 400 = 0

DaysInMonth(y, m) ==
  IF m = 2 THEN (IF IsLeapYear(y) THEN 29 ELSE 28)
  ELSE IF m \in {4, 6, 9, 11} THEN 30 ELSE 31

\* the UTC day of year y, month m, day d (1..31): a day past the end of its
\* month rolls over into the next month
UTCDay(y, m, d) ==
  IF d > DaysInMonth(y, m) THEN DateObj(TRUE, y, m + 1, d - DaysInMonth(y, m))
  ELSE DateObj(TRUE, y, m, d)

\* new Date(s + 'T00:00:00Z') for a string s that matches ISO_DATE_REGEX:
\* Invalid Date when the month is not 01..12 or the day not 01..31, otherwise
\* the UTC day.  (An engine that gives Invalid Date for a day past the end of
\* the month leads validateIsoDate to the same issue code.)
DateOfIso(s) ==
  IF \/ DigitsValue(s, 6, 2) < 1
     \/ DigitsValue(s, 6, 2) > 12
     \/ DigitsValue(s, 9, 2) < 1
     \/ DigitsValue(s, 9, 2) > 31
  THEN DateObj(FALSE, 0, 0, 0)
  ELSE UTCDay(DigitsValue(s, 1, 4), DigitsValue(s, 6, 2), DigitsValue(s, 9, 2))

\* the four-digit or signed six-digit year of toISOString
ISOYear(y) ==
  IF y >= 0 /\ y <= 9999 THEN PadDigits(y, 4)
  ELSE <<IF y < 0 THEN "-" ELSE "+">> \o PadDigits(Abs(y), 6)

\* date.toISOString().split('T')[0]: years 0..9999 are written with four
\* digits, every other year with a sign and six digits.
toISODateString(date) ==
  ISOYear(date.y) \o <<"-">> \o PadDigits(date.mo, 2) \o <<"-">> \o PadDigits(date.d, 2)

\* the order of the characters' code units, for the characters the model uses
CharOrder ==
  <<"\n", " ", "+", "-", ".">> \o Digits \o UpperCase \o LowerCase

CharCode(c) == CHOOSE i \in 1..Len(CharOrder) : CharOrder[i] = c

\* a < b on strings (code unit by code unit)
RECURSIVE StrLess(_, _)
StrLess(a, b) ==
  IF b = <<>> THEN FALSE
  ELSE IF a = <<>> THEN TRUE
  ELSE IF Head(a) = Head(b) THEN StrLess(Tail(a), Tail(b))
  ELSE CharCode(Head(a)) < CharCode(Head(b))

\* -------------------------------------------------------------------------
\* validate.ts: constants and the issue builder
\* -------------------------------------------------------------------------
SUPPORTED_CURRENCIES == {
    <<"E", "U", "R">>, <<"U", "S", "D">>, <<"G", "B", "P">>, <<"C", "H", "F">>, <<"C", "A", "D">>,
    <<"A", "U", "D">>, <<"J", "P", "Y">>, <<"C", "N", "Y">>, <<"I", "N", "R">>, <<"B", "R", "L">>,
    <<"M", "X", "N">>, <<"K", "R", "W">>, <<"S", "E", "K">>, <<"N", "O", "K">>, <<"D", "K", "K">>,
    <<"P", "L", "N">>, <<"C", "Z", "K">>, <<"H", "U", "F">>, <<"R", "O", "N">>, <<"B", "G", "N">>,
    <<"H", "R", "K">>, <<"R", "U", "B">>, <<"T", "R", "Y">>, <<"Z", "A", "R">>, <<"N", "Z", "D">>,
    <<"S", "G", "D">>, <<"H", "K", "D">>, <<"T", "H", "B">>, <<"M", "Y", "R">>, <<"P", "H", "P">>
  }

\* an issue builder that files every INVALID_TYPE under the catch-all code
issueCatchAll(code, path, hint) ==
  [code |-> IF code = "INVALID_TYPE" THEN "UNKNOWN" ELSE code, path |-> path, hint |-> hint]

\* issue(code, path, message, hint): hint "" stands for no hint
issue(code, path, hint) == [code |-> code, path |-> path, hint |-> hint]

\* What a validator hands back: its return value, and the issues it pushed
\* onto the issues array it was given, in the order of the pushes.
Ret(val, issues) == [val |-> val, issues |-> issues]

\* an option of an options object, or its default when the key is not given
Option(options, key, default) ==
  IF key \in DOMAIN options THEN options[key] ELSE default

\* -------------------------------------------------------------------------
\* validate.ts: field validators
\* -------------------------------------------------------------------------
\* validateRequiredString returning the value as given, not trimmed
validateRequiredStringUntrimmed(obj, field, path) ==
  LET value == Get(obj, field)
  IN IF value.t \in {"undefined", "null"}
     THEN Ret(Undefined, <<issue("MISSING_REQUIRED", path, "")>>)
     ELSE IF ~isString(value)
     THEN Ret(Undefined, <<issue("INVALID_TYPE", path, "")>>)
     ELSE IF trim(value.s) = <<>>
     THEN Ret(Undefined, <<issue("MISSING_REQUIRED", path, "")>>)
     ELSE Ret(value, <<>>)

\* validateRequiredString without the test for a string that is empty once
\* trimmed
RequiredTrimmedAcceptsBlank(trimmed, path) == Ret(Str(trimmed), <<>>)

\* validateRequiredString from const trimmed = value.trim() on
RequiredTrimmed(trimmed, path) ==
  IF trimmed = <<>>
  THEN Ret(Undefined, <<issue("MISSING_REQUIRED", path, "")>>)
  ELSE Ret(Str(trimmed), <<>>)

validateRequiredString(obj, field, path) ==
  LET value == Get(obj, field)
  IN IF value.t \in {"undefined", "null"}
     THEN Ret(Undefined, <<issue("MISSING_REQUIRED", path, "")>>)
     ELSE IF ~isString(value)
     THEN Ret(Undefined, <<issue("INVALID_TYPE", path, "")>>)
     ELSE RequiredTrimmed(trim(value.s), path)

\* trimmed || undefined
OrUndefined(trimmed) == IF trimmed = <<>> THEN Undefined ELSE Str(trimmed)

validateOptionalString(obj, field, path) ==
  LET value == Get(obj, field)
  IN IF value.t \in {"undefined", "null"} \/ value = Str(<<>>)
     THEN Ret(Undefined, <<>>)
     ELSE IF ~isString(value)
     THEN Ret(Undefined, <<issue("INVALID_TYPE", path, "")>>)
     ELSE Ret(OrUndefined(trim(value.s)), <<>>)

\* validateNumberValue without the allowZero test
validateNumberValueZeroAllowed(value, field, path, options) ==
  IF ~Option(options, "allowNegative", FALSE) /\ FLess(value, Zero)
  THEN Ret(Undefined, <<issue("NEGATIVE_NUMBER", path, "Use a positive number")>>)
  ELSE Ret(Num(value), <<>>)

validateNumberValue(value, field, path, options) ==
  IF ~Option(options, "allowNegative", FALSE) /\ FLess(value, Zero)
  THEN Ret(Undefined, <<issue("NEGATIVE_NUMBER", path, "Use a positive number")>>)
  ELSE IF ~Option(options, "allowZero", TRUE) /\ FIsZero(value)
  THEN Ret(Undefined, <<issue("INVALID_VALUE", path, "")>>)
  ELSE Ret(Num(value), <<>>)

\* validateRequiredNumber from const parsed = parseFloat(value) on
RequiredParsed(parsed, field, path, options) ==
  IF parsed.k # "nan" THEN validateNumberValue(parsed, field, path, options)
  ELSE Ret(Undefined, <<issue("INVALID_TYPE", path, "")>>)

validateRequiredNumber(obj, field, path, options) ==
  LET value == Get(obj, field)
  IN IF value.t \in {"undefined", "null"}
     THEN Ret(Undefined, <<issue("MISSING_REQUIRED", path, "")>>)
     ELSE IF ~isNumber(value)
     THEN IF isString(value)
          THEN RequiredParsed(parseFloat(value.s), field, path, options)
          ELSE Ret(Undefined, <<issue("INVALID_TYPE", path, "")>>)
     ELSE validateNumberValue(value.n, field, path, options)

\* validateOptionalNumber with a max that is itself rejected
OptionalNumberValueBelowMax(num, path, options) ==
  IF ~Option(options, "allowNegative", FALSE) /\ FLess(num, Zero)
  THEN Ret(Undefined, <<issue("NEGATIVE_NUMBER", path, "")>>)
  ELSE IF "min" \in DOMAIN options /\ FLess(num, options.min)
  THEN Ret(Undefined, <<issue("INVALID_VALUE", path, "")>>)
  ELSE IF "max" \in DOMAIN options /\ ~FLess(num, options.max)
  THEN Ret(Undefined, <<issue("INVALID_VALUE", path, "")>>)
  ELSE Ret(Num(num), <<>>)

\* the sign and range checks of validateOptionalNumber on the number num
OptionalNumberValue(num, path, options) ==
  IF ~Option(options, "allowNegative", FALSE) /\ FLess(num, Zero)
  THEN Ret(Undefined, <<issue("NEGATIVE_NUMBER", path, "")>>)
  ELSE IF "min" \in DOMAIN options /\ FLess(num, options.min)
  THEN Ret(Undefined, <<issue("INVALID_VALUE", path, "")>>)
  ELSE IF "max" \in DOMAIN options /\ FLess(options.max, num)
  THEN Ret(Undefined, <<issue("INVALID_VALUE", path, "")>>)
  ELSE Ret(Num(num), <<>>)

\* validateOptionalNumber from const parsed = parseFloat(value) on
OptionalParsed(parsed, path, options) ==
  IF parsed.k = "nan" THEN Ret(Undefined, <<issue("INVALID_TYPE", path, "")>>)
  ELSE OptionalNumberValue(parsed, path, options)

validateOptionalNumber(obj, field, path, options) ==
  LET value == Get(obj, field)
  IN IF value.t \in {"undefined", "null"} \/ value = Str(<<>>)
     THEN Ret(Undefined, <<>>)
     ELSE IF isNumber(value) THEN OptionalNumberValue(value.n, path, options)
     ELSE IF isString(value) THEN OptionalParsed(parseFloat(value.s), path, options)
     ELSE Ret(Undefined, <<issue("INVALID_TYPE", path, "")>>)

\* validateIsoDate without the check that the date did not roll over
IsoDateValueRolledOver(date, trimmed, path) ==
  IF ~date.valid
  THEN Ret(Undefined, <<issue("INVALID_DATE", path, "")>>)
  ELSE Ret(Str(trimmed), <<>>)

\* the checks of validateIsoDate on the date made of a string that matches
\* ISO_DATE_REGEX
IsoDateValue(date, trimmed, path) ==
  IF ~date.valid
  THEN Ret(Undefined, <<issue("INVALID_DATE", path, "")>>)
  ELSE IF \/ date.y # DigitsValue(trimmed, 1, 4)
          \/ date.mo # DigitsValue(trimmed, 6, 2)
          \/ date.d # DigitsValue(trimmed, 9, 2)
  THEN Ret(Undefined, <<issue("INVALID_DATE", path, "")>>)
  ELSE Ret(Str(trimmed), <<>>)

\* validateIsoDate from const trimmed = value.trim() on
IsoDateTrimmed(trimmed, path) ==
  IF ~ISO_DATE_REGEX(trimmed)
  THEN Ret(Undefined, <<issue("INVALID_FORMAT", path, "Example: 2025-01-15")>>)
  ELSE IsoDateValue(DateOfIso(trimmed), trimmed, path)

\* validateIsoDate testing the value as given, not trimmed
validateIsoDateUntrimmed(obj, field, path, required) ==
  LET value == Get(obj, field)
  IN IF value.t \in {"undefined", "null"} \/ value = Str(<<>>)
     THEN Ret(Undefined,
              IF required THEN <<issue("MISSING_REQUIRED", path, "")>> ELSE <<>>)
     ELSE IF value.t = "date"
     THEN IF ~value.valid
          THEN Ret(Undefined, <<issue("INVALID_DATE", path, "")>>)
          ELSE Ret(Str(toISODateString(value)), <<>>)
     ELSE IF ~isString(value)
     THEN Ret(Undefined, <<issue("INVALID_TYPE", path, "")>>)
     ELSE IsoDateTrimmed(value.s, path)

validateIsoDate(obj, field, path, required) ==
  LET value == Get(obj, field)
  IN IF value.t \in {"undefined", "null"} \/ value = Str(<<>>)
     THEN Ret(Undefined,
              IF required THEN <<issue("MISSING_REQUIRED", path, "")>> ELSE <<>>)
     ELSE IF value.t = "date"
     THEN IF ~value.valid
          THEN Ret(Undefined, <<issue("INVALID_DATE", path, "")>>)
          ELSE Ret(Str(toISODateString(value)), <<>>)
     ELSE IF ~isString(value)
     THEN Ret(Undefined, <<issue("INVALID_TYPE", path, "")>>)
     ELSE IsoDateTrimmed(trim(value.s), path)

\* validateCurrency from const upper = value.toUpperCase() on
CurrencyUpper(upper, path) ==
  IF upper \notin SUPPORTED_CURRENCIES
  THEN Ret(Undefined,
           <<issue("INVALID_VALUE", path, "Use ISO 4217 codes like EUR, USD, GBP")>>)
  ELSE Ret(Str(upper), <<>>)

\* validateCurrency looking the value up as given, not in upper case
CurrencyValueAsGiven(r, path) ==
  IF ~Truthy(r.val) THEN r ELSE CurrencyUpper(r.val.s, path)

\* validateCurrency after its call of validateRequiredString
CurrencyValue(r, path) ==
  IF ~Truthy(r.val) THEN r ELSE CurrencyUpper(toUpperCase(r.val.s), path)

validateCurrency(obj, field, path) ==
  CurrencyValue(validateRequiredString(obj, field, path), path)

\* value && { key: value }: the key is left out unless the value is truthy
IfTruthy(value) == IF Truthy(value) THEN value ELSE Undefined

\* -------------------------------------------------------------------------
\* validate.ts: object validators.  A key that an object literal leaves out
\* (the conditional spreads) is a key whose value is Undefined.
\* -------------------------------------------------------------------------
\* validateBusiness returning at the first required field that fails, the
\* fields after it left unchecked
validateBusinessFirstError(input, basePath) ==
  IF ~isObject(input)
  THEN Ret(Undefined, <<issue("INVALID_TYPE", basePath, "")>>)
  ELSE
    LET name == validateRequiredString(input, "name", basePath \o ".name")
        address == validateRequiredString(input, "address", basePath \o ".address")
        email == validateRequiredString(input, "email", basePath \o ".email")
        phone == validateOptionalString(input, "phone", basePath \o ".phone")
        logoUrl == validateOptionalString(input, "logoUrl", basePath \o ".logoUrl")
        taxId == validateOptionalString(input, "taxId", basePath \o ".taxId")
    IN IF ~Truthy(name.val) THEN Ret(Undefined, name.issues)
       ELSE IF ~Truthy(address.val) THEN Ret(Undefined, address.issues)
       ELSE IF ~Truthy(email.val) THEN Ret(Undefined, email.issues)
       ELSE Ret(Obj([name |-> name.val,
                     address |-> address.val,
                     email |-> email.val,
                     phone |-> IfTruthy(phone.val),
                     logoUrl |-> IfTruthy(logoUrl.val),
                     taxId |-> IfTruthy(taxId.val)]),
                phone.issues \o logoUrl.issues \o taxId.issues)

validateBusiness(input, basePath) ==
  IF ~isObject(input)
  THEN Ret(Undefined, <<issue("INVALID_TYPE", basePath, "")>>)
  ELSE
    LET name == validateRequiredString(input, "name", basePath \o ".name")
        address == validateRequiredString(input, "address", basePath \o ".address")
        email == validateRequiredString(input, "email", basePath \o ".email")
        phone == validateOptionalString(input, "phone", basePath \o ".phone")
        logoUrl == validateOptionalString(input, "logoUrl", basePath \o ".logoUrl")
        taxId == validateOptionalString(input, "taxId", basePath \o ".taxId")
        issues == name.issues \o address.issues \o email.issues
                  \o phone.issues \o logoUrl.issues \o taxId.issues
    IN IF ~Truthy(name.val) \/ ~Truthy(address.val) \/ ~Truthy(email.val)
       THEN Ret(Undefined, issues)
       ELSE Ret(Obj([name |-> name.val,
                     address |-> address.val,
                     email |-> email.val,
                     phone |-> IfTruthy(phone.val),
                     logoUrl |-> IfTruthy(logoUrl.val),
                     taxId |-> IfTruthy(taxId.val)]),
                issues)

\* validateClient returning undefined for a client that is no object without
\* pushing an issue
validateClientUnreported(input, basePath) ==
  IF ~isObject(input)
  THEN Ret(Undefined, <<>>)
  ELSE
    LET name == validateRequiredString(input, "name", basePath \o ".name")
        address == validateRequiredString(input, "address", basePath \o ".address")
        email == validateOptionalString(input, "email", basePath \o ".email")
        issues == name.issues \o address.issues \o email.issues
    IN IF ~Truthy(name.val) \/ ~Truthy(address.val)
       THEN Ret(Undefined, issues)
       ELSE Ret(Obj([name |-> name.val,
                     address |-> address.val,
                     email |-> IfTruthy(email.val)]),
                issues)

validateClient(input, basePath) ==
  IF ~isObject(input)
  THEN Ret(Undefined, <<issue("INVALID_TYPE", basePath, "")>>)
  ELSE
    LET name == validateRequiredString(input, "name", basePath \o ".name")
        address == validateRequiredString(input, "address", basePath \o ".address")
        email == validateOptionalString(input, "email", basePath \o ".email")
        issues == name.issues \o address.issues \o email.issues
    IN IF ~Truthy(name.val) \/ ~Truthy(address.val)
       THEN Ret(Undefined, issues)
       ELSE Ret(Obj([name |-> name.val,
                     address |-> address.val,
                     email |-> IfTruthy(email.val)]),
                issues)

\* the cross-field validation taking a dueDate that came back undefined for
\* one before every issueDate
DateOrderAgainstUndefined(issueDate, dueDate, basePath) ==
  IF Truthy(issueDate) /\ (~Truthy(dueDate) \/ StrLess(dueDate.s, issueDate.s))
  THEN <<issue("DATE_ORDER", basePath \o ".dueDate",
               "Set due date on or after the issue date")>>
  ELSE <<>>

\* cross-field validation of validateHeader: dueDate must be >= issueDate
DateOrder(issueDate, dueDate, basePath) ==
  IF Truthy(issueDate) /\ Truthy(dueDate) /\ StrLess(dueDate.s, issueDate.s)
  THEN <<issue("DATE_ORDER", basePath \o ".dueDate",
               "Set due date on or after the issue date")>>
  ELSE <<>>

validateHeader(input, basePath) ==
  IF ~isObject(input)
  THEN Ret(Undefined, <<issue("INVALID_TYPE", basePath, "")>>)
  ELSE
    LET invoiceNumber ==
          validateRequiredString(input, "invoiceNumber", basePath \o ".invoiceNumber")
        issueDate == validateIsoDate(input, "issueDate", basePath \o ".issueDate", TRUE)
        dueDate == validateIsoDate(input, "dueDate", basePath \o ".dueDate", FALSE)
        currency == validateCurrency(input, "currency", basePath \o ".currency")
        taxRate ==
          validateOptionalNumber(input, "taxRate", basePath \o ".taxRate",
                                 [allowNegative |-> FALSE, min |-> Zero, max |-> Fin(Unit)])
        notes == validateOptionalString(input, "notes", basePath \o ".notes")
        issues == invoiceNumber.issues \o issueDate.issues \o dueDate.issues
                  \o currency.issues \o taxRate.issues \o notes.issues
                  \o DateOrder(issueDate.val, dueDate.val, basePath)
    IN IF ~Truthy(invoiceNumber.val) \/ ~Truthy(issueDate.val) \/ ~Truthy(currency.val)
       THEN Ret(Undefined, issues)
       ELSE Ret(Obj([invoiceNumber |-> invoiceNumber.val,
                     issueDate |-> issueDate.val,
                     currency |-> currency.val,
                     dueDate |-> IfTruthy(dueDate.val),
                     taxRate |-> taxRate.val,
                     notes |-> IfTruthy(notes.val)]),
                issues)

validateLineItem(input, basePath) ==
  IF ~isObject(input)
  THEN Ret(Undefined, <<issue("INVALID_TYPE", basePath, "")>>)
  ELSE
    LET description ==
          validateRequiredString(input, "description", basePath \o ".description")
        quantity ==
          validateRequiredNumber(input, "quantity", basePath \o ".quantity",
                                 [allowNegative |-> FALSE, allowZero |-> FALSE])
        unitPrice ==
          validateRequiredNumber(input, "unitPrice", basePath \o ".unitPrice",
                                 [allowNegative |-> FALSE])
        unit == validateOptionalString(input, "unit", basePath \o ".unit")
        issues == description.issues \o quantity.issues \o unitPrice.issues \o unit.issues
    IN IF \/ ~Truthy(description.val)
          \/ quantity.val = Undefined
          \/ unitPrice.val = Undefined
       THEN Ret(Undefined, issues)
       ELSE Ret(Obj([description |-> description.val,
                     quantity |-> quantity.val,
                     unitPrice |-> unitPrice.val,
                     unit |-> IfTruthy(unit.val)]),
                issues)

\* validateLineItem(input[i], `${basePath}[${i}]`, issues), i counted from 0
ItemAt(input, basePath, i) ==
  validateLineItem(input.a[i + 1], basePath \o "[" \o ToString(i) \o "]")

\* what validateLineItem handed back for each element of the array, in order
LoopResults(input, basePath) ==
  [i \in 1..Len(input.a) |-> ItemAt(input, basePath, i - 1)]

\* the items array after the first n turns of the loop of validateLineItems
RECURSIVE LoopItems(_, _)
LoopItems(results, n) ==
  IF n = 0 THEN <<>>
  ELSE IF Truthy(results[n].val) THEN Append(LoopItems(results, n - 1), results[n].val)
  ELSE LoopItems(results, n - 1)

\* the issues pushed by the first n turns of a loop that is left at the
\* first element that fails
RECURSIVE LoopIssuesUntilError(_, _)
LoopIssuesUntilError(results, n) ==
  IF n = 0 THEN <<>>
  ELSE IF \E k \in 1..(n - 1) : ~Truthy(results[k].val)
  THEN LoopIssuesUntilError(results, n - 1)
  ELSE LoopIssuesUntilError(results, n - 1) \o results[n].issues

\* the issues pushed by the first n turns of the loop
RECURSIVE LoopIssues(_, _)
LoopIssues(results, n) ==
  IF n = 0 THEN <<>> ELSE LoopIssues(results, n - 1) \o results[n].issues

\* hasError after the loop
LoopHasError(results) == \E i \in DOMAIN results : ~Truthy(results[i].val)

\* validateLineItems from its loop on
LoopReturn(results) ==
  Ret(IF LoopHasError(results) THEN Undefined ELSE Arr(LoopItems(results, Len(results))),
      LoopIssues(results, Len(results)))

\* validateLineItems without the test for an empty array
validateLineItemsAcceptsEmpty(input, basePath) ==
  IF ~isArray(input)
  THEN Ret(Undefined, <<issue("INVALID_TYPE", basePath, "")>>)
  ELSE LoopReturn(LoopResults(input, basePath))

validateLineItems(input, basePath) ==
  IF ~isArray(input)
  THEN Ret(Undefined, <<issue("INVALID_TYPE", basePath, "")>>)
  ELSE IF Len(input.a) = 0
  THEN Ret(Undefined,
           <<issue("EMPTY_ARRAY", basePath, "Add at least one item to the invoice")>>)
  ELSE LoopReturn(LoopResults(input, basePath))

\* -------------------------------------------------------------------------
\* validate.ts: validateDraft
\* -------------------------------------------------------------------------
\* the four group validations of validateDraft and the issues array after them
DraftGroups(input) ==
  LET business == validateBusiness(Get(input, "business"), "business")
      client == validateClient(Get(input, "client"), "client")
      header == validateHeader(Get(input, "header"), "header")
      lineItems == validateLineItems(Get(input, "lineItems"), "lineItems")
  IN [business |-> business.val,
      client |-> client.val,
      header |-> header.val,
      lineItems |-> lineItems.val,
      issues |-> business.issues \o client.issues \o header.issues \o lineItems.issues]

\* validateDraft's result without the issues.length test: ok whenever the
\* four groups are defined
DraftResultGroupsOnly(g) ==
  IF \/ ~Truthy(g.business)
     \/ ~Truthy(g.client)
     \/ ~Truthy(g.header)
     \/ ~Truthy(g.lineItems)
  THEN [ok |-> FALSE, issues |-> g.issues]
  ELSE [ok |-> TRUE,
        draft |-> Obj([business |-> g.business,
                       client |-> g.client,
                       header |-> g.header,
                       lineItems |-> g.lineItems])]

\* the result validateDraft builds from its four groups and its issues array
DraftResult(g) ==
  IF \/ Len(g.issues) > 0
     \/ ~Truthy(g.business)
     \/ ~Truthy(g.client)
     \/ ~Truthy(g.header)
     \/ ~Truthy(g.lineItems)
  THEN [ok |-> FALSE, issues |-> g.issues]
  ELSE [ok |-> TRUE,
        draft |-> Obj([business |-> g.business,
                       client |-> g.client,
                       header |-> g.header,
                       lineItems |-> g.lineItems])]

validateDraft(input) ==
  IF ~isObject(input)
  THEN [ok |-> FALSE, issues |-> <<issue("INVALID_TYPE", "", "")>>]
  ELSE DraftResult(DraftGroups(input))

\* -------------------------------------------------------------------------
\* compute.ts
\* -------------------------------------------------------------------------
\* the amounts rounded to whole currency units
LineItemAmountsRounded(lineItems) ==
  [i \in 1..Len(lineItems) |->
     FloatOfRatio(
       RoundHalfEven(
         Abs(FMul(Get(lineItems[i], "quantity").n, Get(lineItems[i], "unitPrice").n).m),
         Unit) * Unit,
       1)]

\* lineItems.map((item) => item.quantity * item.unitPrice)
LineItemAmounts(lineItems) ==
  [i \in 1..Len(lineItems) |->
     FMul(Get(lineItems[i], "quantity").n, Get(lineItems[i], "unitPrice").n)]

\* amounts.reduceRight((sum, amount) => sum + amount, initial): the sum taken
\* from the last element to element i
RECURSIVE ReduceSumRight(_, _, _)
ReduceSumRight(amounts, i, sum) ==
  IF i > Len(amounts) THEN sum
  ELSE FAdd(ReduceSumRight(amounts, i + 1, sum), amounts[i])

\* amounts.reduce((sum, amount) => sum + amount, initial), from element i on
RECURSIVE ReduceSum(_, _, _)
ReduceSum(amounts, i, sum) ==
  IF i > Len(amounts) THEN sum ELSE ReduceSum(amounts, i + 1, FAdd(sum, amounts[i]))

\* taxRate ?? 0
OrZero(taxRate) == IF taxRate.t \in {"undefined", "null"} THEN Zero ELSE taxRate.n

\* the ComputedTotals object built from the amounts and the tax rate
Totals(lineItemAmounts, taxRate) ==
  LET subtotal == ReduceSum(lineItemAmounts, 1, Zero)
      taxAmount == FMul(subtotal, taxRate)
      total == FAdd(subtotal, taxAmount)
  IN Obj([lineItemAmounts |-> Arr([i \in 1..Len(lineItemAmounts) |-> Num(lineItemAmounts[i])]),
          subtotal |-> Num(subtotal),
          taxAmount |-> Num(taxAmount),
          total |-> Num(total)])

\* { ...obj, computed }
WithComputed(obj, computed) ==
  Obj([key \in DOMAIN obj.o \cup {"computed"} |->
         IF key = "computed" THEN computed ELSE obj.o[key]])

\* const { computed: _oldComputed, ...draft } = invoice
WithoutComputed(invoice) ==
  Obj([key \in DOMAIN invoice.o \ {"computed"} |-> invoice.o[key]])

computeInvoice(draft) ==
  LET lineItemAmounts == LineItemAmounts(Get(draft, "lineItems").a)
      taxRate == OrZero(Get(Get(draft, "header"), "taxRate"))
  IN WithComputed(draft, Totals(lineItemAmounts, taxRate))

\* recomputeInvoice keeping the totals the invoice came with
recomputeInvoiceStale(invoice) == invoice

recomputeInvoice(invoice) == computeInvoice(WithoutComputed(invoice))

\* computeTotals without the default of its second parameter: a rate left
\* out is undefined, and subtotal * undefined is NaN
computeTotalsNoDefault(lineItems, taxRate) ==
  Totals(LineItemAmounts(lineItems),
         IF taxRate.t = "undefined" THEN NaN ELSE taxRate.n)

\* computeTotals(lineItems, taxRate = 0): the default applies to undefined only
computeTotals(lineItems, taxRate) ==
  Totals(LineItemAmounts(lineItems),
         IF taxRate.t = "undefined" THEN Zero ELSE taxRate.n)

\* -------------------------------------------------------------------------
\* format.ts
\* -------------------------------------------------------------------------
CURRENCY_LOCALE_MAP ==
  (<<"E", "U", "R">> :> "de-DE") @@ (<<"U", "S", "D">> :> "en-US") @@ (<<"G", "B", "P">> :> "en-GB") @@
  (<<"C", "H", "F">> :> "de-CH") @@ (<<"C", "A", "D">> :> "en-CA") @@ (<<"A", "U", "D">> :> "en-AU") @@
  (<<"J", "P", "Y">> :> "ja-JP") @@ (<<"C", "N", "Y">> :> "zh-CN") @@ (<<"I", "N", "R">> :> "en-IN") @@
  (<<"B", "R", "L">> :> "pt-BR") @@ (<<"M", "X", "N">> :> "es-MX") @@ (<<"K", "R", "W">> :> "ko-KR") @@
  (<<"S", "E", "K">> :> "sv-SE") @@ (<<"N", "O", "K">> :> "nb-NO") @@ (<<"D", "K", "K">> :> "da-DK") @@
  (<<"P", "L", "N">> :> "pl-PL") @@ (<<"C", "Z", "K">> :> "cs-CZ") @@ (<<"H", "U", "F">> :> "hu-HU") @@
  (<<"R", "O", "N">> :> "ro-RO") @@ (<<"B", "G", "N">> :> "bg-BG") @@ (<<"R", "U", "B">> :> "ru-RU") @@
  (<<"T", "R", "Y">> :> "tr-TR") @@ (<<"Z", "A", "R">> :> "en-ZA") @@ (<<"N", "Z", "D">> :> "en-NZ") @@
  (<<"S", "G", "D">> :> "en-SG") @@ (<<"H", "K", "D">> :> "zh-HK") @@ (<<"T", "H", "B">> :> "th-TH") @@
  (<<"M", "Y", "R">> :> "ms-MY") @@ (<<"P", "H", "P">> :> "en-PH")

DEFAULT_LOCALE == "en-US"

\* getLocaleForCurrency looking the code up as given, not in upper case
getLocaleForCurrencyAsGiven(currency) ==
  IF currency \in DOMAIN CURRENCY_LOCALE_MAP THEN CURRENCY_LOCALE_MAP[currency]
  ELSE DEFAULT_LOCALE

getLocaleForCurrency(currency) ==
  LET upper == toUpperCase(currency)
  IN IF upper \in DOMAIN CURRENCY_LOCALE_MAP THEN CURRENCY_LOCALE_MAP[upper]
     ELSE DEFAULT_LOCALE

\* What an Intl formatter returns is a string fixed by the formatter's
\* settings and the value formatted; its characters are not modelled.
IntlString(settings, value) == [t |-> "string", intl |-> settings, of |-> value]

createCurrencyFormatter(currency, locale, display) ==
  [style |-> "currency", locale |-> locale, currency |-> currency,
   currencyDisplay |-> display, minimumFractionDigits |-> 2, maximumFractionDigits |-> 2]

createNumberFormatter(locale) ==
  [style |-> "decimal", locale |-> locale,
   minimumFractionDigits |-> 0, maximumFractionDigits |-> 2]

createDateFormatter(locale, style) ==
  [style |-> "date", locale |-> locale, year |-> "numeric",
   month |-> CASE style = "short" -> "numeric"
               [] style = "long" -> "long"
               [] OTHER -> "short",
   day |-> "numeric"]

\* new Date(isoDate + 'T00:00:00Z'), also for a year written with a sign and
\* six digits
parseIsoDate(isoDate) ==
  IF ISO_DATE_REGEX(isoDate) THEN DateOfIso(isoDate)
  ELSE IF /\ Len(isoDate) = 13
          /\ isoDate[1] \in {"+", "-"}
          /\ ISO_DATE_REGEX(SubSeq(isoDate, 4, 13))
          /\ isDigit(isoDate[2])
          /\ isDigit(isoDate[3])
  THEN LET rest == DateOfIso(SubSeq(isoDate, 4, 13))
           year == (IF isoDate[1] = "-" THEN -1 ELSE 1) * DigitsValue(isoDate, 2, 6)
       IN IF rest.valid THEN DateObj(TRUE, year, rest.mo, rest.d) ELSE rest
  ELSE DateObj(FALSE, 0, 0, 0)

formatDate(isoDate, formatter) == IntlString(formatter, parseIsoDate(isoDate))

\* the value itself, where the formatter has value ?? ''
OrAsGiven(value) == value

\* value ?? ''
OrEmpty(value) == IF value.t \in {"undefined", "null"} THEN Str(<<>>) ELSE value

\* the decimal digits of the natural number n
RECURSIVE NatDigits(_)
NatDigits(n) ==
  IF n < 10 THEN <<Digits[n + 1]>> ELSE Append(NatDigits(n \div 10), Digits[(n % 10) + 1])

\* x.toFixed(0): the nearest integer, the larger one of two equally near
toFixed0(x) ==
  IF x.k = "nan" THEN <<"N", "a", "N">>
  ELSE IF x.k = "inf"
  THEN (IF x.m < 0 THEN <<"-">> ELSE <<>>) \o <<"I", "n", "f", "i", "n", "i", "t", "y">>
  ELSE LET n == (2 * Abs(x.m) + Unit) \div (2 * Unit)
       IN (IF x.m < 0 /\ n > 0 THEN <<"-">> ELSE <<>>) \o NatDigits(n)

formatBusiness(business) ==
  Obj([name |-> Get(business, "name"),
       address |-> Get(business, "address"),
       email |-> Get(business, "email"),
       phone |-> OrEmpty(Get(business, "phone")),
       logoUrl |-> OrEmpty(Get(business, "logoUrl")),
       taxId |-> OrEmpty(Get(business, "taxId"))])

formatClient(client) ==
  Obj([name |-> Get(client, "name"),
       address |-> Get(client, "address"),
       email |-> OrEmpty(Get(client, "email"))])

\* formatHeader with header.taxRate ? ... : '' for the tax rate display
formatHeaderTruthyRate(header, dateFormatter) ==
  LET taxRate == Get(header, "taxRate")
      taxRateDisplay ==
        IF Truthy(taxRate)
        THEN Str(toFixed0(FMul(taxRate.n, FloatOfRatio(100 * Unit, 1))))
        ELSE Str(<<>>)
  IN Obj([invoiceNumber |-> Get(header, "invoiceNumber"),
          issueDate |-> formatDate(Get(header, "issueDate").s, dateFormatter),
          dueDate |-> IF Truthy(Get(header, "dueDate"))
                      THEN formatDate(Get(header, "dueDate").s, dateFormatter)
                      ELSE Str(<<>>),
          currency |-> Get(header, "currency"),
          taxRateDisplay |-> taxRateDisplay,
          notes |-> OrEmpty(Get(header, "notes"))])

formatHeader(header, dateFormatter) ==
  LET taxRate == Get(header, "taxRate")
      taxRateDisplay ==
        IF taxRate # Undefined
        THEN Str(toFixed0(FMul(taxRate.n, FloatOfRatio(100 * Unit, 1))))
        ELSE Str(<<>>)
  IN Obj([invoiceNumber |-> Get(header, "invoiceNumber"),
          issueDate |-> formatDate(Get(header, "issueDate").s, dateFormatter),
          dueDate |-> IF Truthy(Get(header, "dueDate"))
                      THEN formatDate(Get(header, "dueDate").s, dateFormatter)
                      ELSE Str(<<>>),
          currency |-> Get(header, "currency"),
          taxRateDisplay |-> taxRateDisplay,
          notes |-> OrEmpty(Get(header, "notes"))])

formatLineItems(lineItems, amounts, currencyFormatter, numberFormatter) ==
  Arr([index \in 1..Len(lineItems) |->
         Obj([description |-> Get(lineItems[index], "description"),
              quantity |-> IntlString(numberFormatter, Get(lineItems[index], "quantity")),
              unitPrice |-> IntlString(currencyFormatter, Get(lineItems[index], "unitPrice")),
              amount |-> IntlString(currencyFormatter,
                                    IF index <= Len(amounts)
                                    THEN (IF amounts[index].t \in {"undefined", "null"}
                                          THEN Num(Zero) ELSE amounts[index])
                                    ELSE Num(Zero)),
              unit |-> OrEmpty(Get(lineItems[index], "unit"))])])

formatTotals(computed, currencyFormatter) ==
  Obj([subtotal |-> IntlString(currencyFormatter, Get(computed, "subtotal")),
       taxAmount |-> IntlString(currencyFormatter, Get(computed, "taxAmount")),
       total |-> IntlString(currencyFormatter, Get(computed, "total"))])

formatInvoice(invoice, options) ==
  LET currency == Get(Get(invoice, "header"), "currency")
      locale == Option(options, "locale", getLocaleForCurrency(currency.s))
      dateStyle == Option(options, "dateFormat", "medium")
      currencyDisplay == Option(options, "currencyDisplay", "symbol")
      currencyFormatter == createCurrencyFormatter(currency, locale, currencyDisplay)
      numberFormatter == createNumberFormatter(locale)
      dateFormatter == createDateFormatter(locale, dateStyle)
  IN Obj([business |-> formatBusiness(Get(invoice, "business")),
          client |-> formatClient(Get(invoice, "client")),
          header |-> formatHeader(Get(invoice, "header"), dateFormatter),
          lineItems |-> formatLineItems(Get(invoice, "lineItems").a,
                                        Get(Get(invoice, "computed"), "lineItemAmounts").a,
                                        currencyFormatter, numberFormatter),
          totals |-> formatTotals(Get(invoice, "computed"), currencyFormatter)])

\* -------------------------------------------------------------------------
\* index.ts: the pipeline.  calls lists the stages processInvoice invoked.
\* -------------------------------------------------------------------------
\* the success branch, from the computed invoice on
ProcessComputed(computed, options) ==
  [result |-> [ok |-> TRUE, invoice |-> formatInvoice(computed, options),
               computed |-> computed],
   calls |-> <<"validateDraft", "computeInvoice", "formatInvoice">>]

\* a pipeline that invokes computeInvoice before it tests validation.ok
ProcessValidationEager(validation, options) ==
  IF ~validation.ok
  THEN [result |-> [ok |-> FALSE, issues |-> validation.issues],
        calls |-> <<"validateDraft", "computeInvoice">>]
  ELSE ProcessComputed(computeInvoice(validation.draft), options)

\* what follows validateDraft
ProcessValidation(validation, options) ==
  IF ~validation.ok
  THEN [result |-> [ok |-> FALSE, issues |-> validation.issues],
        calls |-> <<"validateDraft">>]
  ELSE ProcessComputed(computeInvoice(validation.draft), options)

processInvoice(input, options) == ProcessValidation(validateDraft(input), options)

DraftProcessed(computed, options) ==
  [computed |-> computed, invoice |-> formatInvoice(computed, options)]

processDraft(draft, options) == DraftProcessed(computeInvoice(draft), options)

\* -------------------------------------------------------------------------
\* google-addon cell map: engine field paths and spreadsheet cells, both
\* as sequences of characters
\* -------------------------------------------------------------------------
\* the entries of METADATA_CELLS in their order: <<path, cell>>
METADATA_CELLS ==
  <<<<<<"h", "e", "a", "d", "e", "r", ".", "i", "n", "v", "o", "i", "c", "e", "N", "u", "m", "b", "e", "r">>, <<"B", "3">>>>,
    <<<<"h", "e", "a", "d", "e", "r", ".", "i", "s", "s", "u", "e", "D", "a", "t", "e">>, <<"B", "4">>>>,
    <<<<"h", "e", "a", "d", "e", "r", ".", "d", "u", "e", "D", "a", "t", "e">>, <<"B", "5">>>>,
    <<<<"h", "e", "a", "d", "e", "r", ".", "c", "u", "r", "r", "e", "n", "c", "y">>, <<"B", "6">>>>,
    <<<<"h", "e", "a", "d", "e", "r", ".", "t", "a", "x", "R", "a", "t", "e">>, <<"B", "7">>>>,
    <<<<"c", "l", "i", "e", "n", "t", ".", "n", "a", "m", "e">>, <<"B", "1", "0">>>>,
    <<<<"c", "l", "i", "e", "n", "t", ".", "a", "d", "d", "r", "e", "s", "s">>, <<"B", "1", "1">>>>,
    <<<<"c", "l", "i", "e", "n", "t", ".", "e", "m", "a", "i", "l">>, <<"B", "1", "2">>>>>>

\* firstDataRow, and the entries of columns in their order: <<field, index>>
LINE_ITEMS_CONFIG ==
  [headerRow |-> 15,
   firstDataRow |-> 16,
   columns |-> <<<<<<"d", "e", "s", "c", "r", "i", "p", "t", "i", "o", "n">>, 0>>,
                 <<<<"q", "u", "a", "n", "t", "i", "t", "y">>, 1>>,
                 <<<<"u", "n", "i", "t", "P", "r", "i", "c", "e">>, 2>>,
                 <<<<"a", "m", "o", "u", "n", "t">>, 3>>>>]

\* columnToLetter(col) for a column index col >= 0
RECURSIVE columnToLetter(_)
columnToLetter(col) ==
  IF col < 26 THEN <<UpperCase[(col % 26) + 1]>>
  ELSE columnToLetter((col \div 26) - 1) \o <<UpperCase[(col % 26) + 1]>>

\* pathToCell(path): the metadata cell of the path; for lineItems[N].field
\* with a field of the columns, the column letter and the row
\* firstDataRow + N; every other path as it is
pathToCell(path) ==
  LET isUpper(c) == \E i \in DOMAIN UpperCase : UpperCase[i] = c
      prefix == <<"l", "i", "n", "e", "I", "t", "e", "m", "s", "[">>
      close == CHOOSE k \in 1..(Len(path) + 1) :
                 /\ k = Len(path) + 1 \/ (k > Len(prefix) /\ ~isDigit(path[k]))
                 /\ \A j \in (Len(prefix) + 1)..(k - 1) : isDigit(path[j])
      field == SubSeq(path, close + 2, Len(path))
      matches ==
        /\ StartsWithAt(path, 1, prefix)
        /\ close > Len(prefix) + 1
        /\ StartsWithAt(path, close, <<"]", ".">>)
        /\ field # <<>>
        /\ \A k \in DOMAIN field :
             isDigit(field[k]) \/ field[k] = "_"
             \/ isUpper(field[k]) \/ (\E i \in DOMAIN LowerCase : LowerCase[i] = field[k])
      index == DigitsValue(path, Len(prefix) + 1, close - Len(prefix) - 1)
      columns == LINE_ITEMS_CONFIG.columns
  IN IF \E e \in DOMAIN METADATA_CELLS : METADATA_CELLS[e][1] = path
     THEN Str(METADATA_CELLS[CHOOSE e \in DOMAIN METADATA_CELLS :
                               METADATA_CELLS[e][1] = path][2])
     ELSE IF matches /\ \E c \in DOMAIN columns : columns[c][1] = field
     THEN Str(columnToLetter(columns[CHOOSE c \in DOMAIN columns : columns[c][1] = field][2])
              \o NatDigits(LINE_ITEMS_CONFIG.firstDataRow + index))
     ELSE Str(path)

\* cellToPath(cell): the path of the metadata cell; for letters followed by
\* digits with a row from firstDataRow on, the first field of the columns
\* whose letter the cell has; otherwise undefined
cellToPath(cell) ==
  LET isUpper(c) == \E i \in DOMAIN UpperCase : UpperCase[i] = c
      split == CHOOSE k \in 1..(Len(cell) + 1) :
                 /\ k = Len(cell) + 1 \/ ~isUpper(cell[k])
                 /\ \A j \in 1..(k - 1) : isUpper(cell[j])
      col == SubSeq(cell, 1, split - 1)
      digits == SubSeq(cell, split, Len(cell))
      matches ==
        /\ col # <<>>
        /\ digits # <<>>
        /\ \A k \in DOMAIN digits : isDigit(digits[k])
      row == DigitsValue(digits, 1, Len(digits))
      columns == LINE_ITEMS_CONFIG.columns
      found == {c \in DOMAIN columns : columnToLetter(columns[c][2]) = col}
  IN IF \E e \in DOMAIN METADATA_CELLS : METADATA_CELLS[e][2] = cell
     THEN Str(METADATA_CELLS[CHOOSE e \in DOMAIN METADATA_CELLS :
                               /\ METADATA_CELLS[e][2] = cell
                               /\ \A d \in 1..(e - 1) : METADATA_CELLS[d][2] # cell][1])
     ELSE IF matches /\ row >= LINE_ITEMS_CONFIG.firstDataRow /\ found # {}
     THEN Str(<<"l", "i", "n", "e", "I", "t", "e", "m", "s", "[">> \o NatDigits(row - LINE_ITEMS_CONFIG.firstDataRow)
              \o <<"]", ".">>
              \o columns[CHOOSE c \in found : \A d \in found : c <= d][1])
     ELSE Undefined

\* -------------------------------------------------------------------------
\* The callers' inputs
\* -------------------------------------------------------------------------
NoOptions == <<>>

\* validInvoice of validate.test.ts, scaled down
MinimalInvoice ==
  Obj([business |-> Obj([name |-> Str(<<"a", " ", "b">>),
                         address |-> Str(<<"a", "\n", "b">>),
                         email |-> Str(<<"a">>),
                         phone |-> Undefined, logoUrl |-> Undefined, taxId |-> Undefined]),
       client |-> Obj([name |-> Str(<<"b">>), address |-> Str(<<"b">>),
                       email |-> Undefined]),
       header |-> Obj([invoiceNumber |-> Str(<<"1">>),
                       issueDate |-> Str(<<"2", "0", "2", "5", "-", "0", "1", "-", "0", "5">>),
                       dueDate |-> Undefined,
                       currency |-> Str(<<"E", "U", "R">>),
                       taxRate |-> Undefined,
                       notes |-> Undefined]),
       lineItems |-> Arr(<<Obj([description |-> Str(<<"a">>),
                                quantity |-> Num(Fin(Unit)),
                                unitPrice |-> Num(Fin(8 * Unit)),
                                unit |-> Undefined])>>)])

\* every optional field given; untrimmed strings, a lower-case currency,
\* numeric strings and a native date
FullInvoice ==
  Obj([business |-> Obj([name |-> Str(<<" ", "a", " ">>),
                         address |-> Str(<<"a", "\n", "b">>),
                         email |-> Str(<<"a">>),
                         phone |-> Str(<<" ", "1">>),
                         logoUrl |-> Str(<<"a">>),
                         taxId |-> Str(<<"D", "E", "1">>)]),
       client |-> Obj([name |-> Str(<<"b">>), address |-> Str(<<"b", "\n">>),
                       email |-> Str(<<"b", " ">>)]),
       header |-> Obj([invoiceNumber |-> Str(<<" ", "2">>),
                       issueDate |-> DateObj(TRUE, 2025, 1, 5),
                       dueDate |-> Str(<<" ", "2", "0", "2", "5", "-", "0", "1", "-", "3", "1">>),
                       currency |-> Str(<<"u", "s", "d", " ">>),
                       taxRate |-> Str(<<"0", ".", "5">>),
                       notes |-> Str(<<"a">>)]),
       lineItems |-> Arr(<<Obj([description |-> Str(<<" ", "a">>),
                                quantity |-> Str(<<"2">>),
                                unitPrice |-> Str(<<"1", ".", "5">>),
                                unit |-> Str(<<"h">>)]),
                           Obj([description |-> Str(<<"b">>),
                                quantity |-> Num(Fin(Unit \div 2)),
                                unitPrice |-> Num(Zero),
                                unit |-> Undefined])>>)])

\* every field invalid on its own
BrokenInvoice ==
  Obj([business |-> Obj([name |-> Undefined,
                         address |-> Num(Fin(Unit)),
                         email |-> Str(<<" ">>),
                         phone |-> Num(Fin(Unit)),
                         logoUrl |-> Bool(TRUE),
                         taxId |-> Num(Zero)]),
       client |-> Obj([name |-> Null, address |-> Str(<<>>), email |-> Bool(FALSE)]),
       header |-> Obj([invoiceNumber |-> Num(Fin(Unit)),
                       issueDate |-> Str(<<"2", "0", "2", "5", "-", "0", "2", "-", "3", "0">>),
                       dueDate |-> Str(<<"2", "0", "2", "5", "-", "1", "-", "5">>),
                       currency |-> Str(<<"x", "y", "z">>),
                       taxRate |-> Num(Fin(Unit + 1)),
                       notes |-> Num(Fin(Unit))]),
       lineItems |-> Arr(<<Obj([description |-> Undefined,
                                quantity |-> Num(Zero),
                                unitPrice |-> Num(Fin(-Unit)),
                                unit |-> Num(Fin(Unit))]),
                           Str(<<"a">>)>>)])

BaseInputs == {MinimalInvoice, FullInvoice, BrokenInvoice}

RequiredStringValues ==
  {Undefined, Null, Num(Fin(Unit)), Str(<<" ">>), Str(<<" ", "b", "\n">>)}

OptionalStringValues ==
  {Null, Bool(FALSE), Str(<<>>), Str(<<" ">>), Str(<<"b", " ">>)}

NumberValues ==
  {Undefined, Str(<<"x">>), Str(<<" ", "2", "x">>), Str(<<"-", "1">>),
   Num(Zero), Num(Fin(MaxFinite)), Num(PosInf), Num(NaN)}

TaxRateValues ==
  {Null, Str(<<>>), Str(<<"x">>), Str(<<"1", ".", "5">>), Bool(TRUE),
   Num(Fin(-1)), Num(Zero), Num(Fin(Unit)), Num(Fin(Unit + 1))}

DateValues ==
  {Undefined, Num(Fin(Unit)),
   Str(<<"2", "0", "2", "5", "-", "0", "2", "-", "3", "0">>),
   Str(<<"2", "0", "2", "5", "-", "1", "3", "-", "0", "1">>),
   Str(<<"2", "0", "2", "5", "-", "1", "-", "5">>),
   Str(<<"2", "0", "2", "4", "-", "0", "2", "-", "2", "9", " ">>),
   Str(<<"2", "0", "2", "5", "-", "0", "1", "-", "0", "5">>),
   DateObj(FALSE, 0, 0, 0),
   DateObj(TRUE, 2024, 12, 31),
   DateObj(TRUE, 10000, 1, 1)}

CurrencyValues ==
  {Undefined, Num(Fin(Unit)), Str(<<" ">>), Str(<<"g", "b", "P">>), Str(<<"x", "y", "z">>),
   Str(<<"H", "R", "K">>)}

\* the values a caller may store in a field of a group
FieldValues(group, field) ==
  CASE field \in {"issueDate", "dueDate"} -> DateValues
    [] field = "currency" -> CurrencyValues
    [] field = "taxRate" -> TaxRateValues
    [] field \in {"quantity", "unitPrice"} -> NumberValues
    [] field \in {"name", "address", "invoiceNumber", "description"} -> RequiredStringValues
    [] field = "email" /\ group = "business" -> RequiredStringValues
    [] OTHER -> OptionalStringValues

GroupNames == {"business", "client", "header"}

\* what is not an object, for the whole input
NonObjectValues == {Undefined, Null, Str(<<"a">>), Num(Fin(Unit)), Bool(TRUE), Arr(<<>>)}

\* what is not an object, for a group or a line item
NonObjectParts == {Undefined, Null, Str(<<"a">>), Arr(<<>>)}

\* what may stand in place of the lineItems array
LineItemsValues == {Undefined, Str(<<"a">>), Arr(<<>>), Obj([length |-> Num(Fin(Unit))])}

NewItems ==
  {Obj([description |-> Str(<<"c">>), quantity |-> Num(Fin(Unit)),
        unitPrice |-> Num(Fin(Unit)), unit |-> Undefined]),
   Obj([description |-> Str(<<"c">>), quantity |-> Num(Fin(MaxFinite)),
        unitPrice |-> Num(Fin(2 * Unit)), unit |-> Undefined]),
   Obj([description |-> Str(<<>>), quantity |-> Str(<<"2">>),
        unitPrice |-> Num(Fin(-Unit)), unit |-> Str(<<"h">>)])}

OptionValues ==
  {NoOptions, [locale |-> "fr-FR"], [dateFormat |-> "long", currencyDisplay |-> "code"]}

\* the options given to the pipeline
PipelineOptionValues == {NoOptions, [locale |-> "fr-FR", dateFormat |-> "short"]}

\* obj with obj[field] = value
Put(obj, field, value) == Obj([obj.o EXCEPT ![field] = value])

\* line items and tax rates of typed drafts and computed invoices
TypedItems ==
  {Obj([description |-> Str(<<"a">>), quantity |-> Num(Fin(Unit)),
        unitPrice |-> Num(Fin(8 * Unit)), unit |-> Undefined]),
   Obj([description |-> Str(<<"b">>), quantity |-> Num(Fin(Unit \div 2)),
        unitPrice |-> Num(Fin(Unit \div 2)), unit |-> Str(<<"h">>)]),
   Obj([description |-> Str(<<"c">>), quantity |-> Num(Fin(3 * Unit)),
        unitPrice |-> Num(Zero), unit |-> Undefined]),
   Obj([description |-> Str(<<"d">>), quantity |-> Num(Fin(MaxFinite)),
        unitPrice |-> Num(Fin(2 * Unit)), unit |-> Undefined])}

TypedRates == {Undefined, Num(Zero), Num(Fin(Unit \div 2))}

\* invoice with its lineItems array replaced
WithLineItems(invoice, items) == Put(invoice, "lineItems", Arr(items))

\* invoice with header.taxRate replaced
WithTaxRate(invoice, rate) ==
  Put(invoice, "header", Put(Get(invoice, "header"), "taxRate", rate))

\* the text yyyy-mm-dd of three numbers, whether or not they name a day
IsoString(y, m, d) ==
  Str(PadDigits(y, 4) \o <<"-">> \o PadDigits(m, 2) \o <<"-">> \o PadDigits(d, 2))

\* inputs that differ from the valid invoice in one part: a date or the two
\* dates, the currency, a number, a required string, or the line items
FieldInputs ==
  LET InHeader(field, value) ==
        Put(MinimalInvoice, "header", Put(Get(MinimalInvoice, "header"), field, value))
      InGroup(group, field, value) ==
        Put(MinimalInvoice, group, Put(Get(MinimalInvoice, group), field, value))
      InItem(field, value) ==
        Put(MinimalInvoice, "lineItems",
            Arr([Get(MinimalInvoice, "lineItems").a EXCEPT ![1] = Put(@, field, value)]))
      WithDates(issueDate, dueDate) ==
        Put(MinimalInvoice, "header",
            Put(Put(Get(MinimalInvoice, "header"), "issueDate", issueDate),
                "dueDate", dueDate))
      \* texts that are not of the form yyyy-mm-dd, or are so only when trimmed
      DateTexts ==
        {Str(<<" ">>),
         Str(<<"2", "0", "2", "5", "-", "1", "-", "5">>),
         Str(<<"2", "5", "-", "0", "1", "-", "0", "5">>),
         Str(<<"2", "0", "2", "5", "/", "0", "1", "/", "0", "5">>),
         Str(<<"2", "0", "2", "5", "0", "1", "0", "5">>),
         Str(<<"2", "0", "2", "5", "-", "0", "1", "-", "0", "5", "T">>),
         Str(<<"2", "0", "2", "5", "-", "0", "1", "-", "0", "x">>),
         Str(<<"0", "5", "-", "0", "1", "-", "2", "0", "2", "5">>),
         Str(<<"+", "0", "1", "0", "0", "0", "0", "-", "0", "1", "-", "0", "1">>),
         Str(<<" ", "2", "0", "2", "5", "-", "0", "1", "-", "0", "5">>),
         Str(<<"2", "0", "2", "5", "-", "0", "1", "-", "0", "5", "\n">>)}
      \* days on both sides of the ends of months and years, as texts and as
      \* native dates
      OrderDates ==
        {IsoString(999, 12, 31), IsoString(1000, 1, 1),
         IsoString(2024, 2, 29), IsoString(2024, 3, 1),
         IsoString(2024, 12, 31), IsoString(2025, 1, 1),
         IsoString(2025, 1, 31), IsoString(2025, 2, 1),
         DateObj(TRUE, 2025, 1, 1), DateObj(TRUE, 10000, 1, 1)}
      CurrencyTexts ==
        {Undefined, Null, Num(Fin(Unit)), Str(<<>>), Str(<<" ">>),
         Str(<<"E", "U", "R">>), Str(<<"e", "u", "r">>), Str(<<"E", "u", "r">>),
         Str(<<"h", "r", "k">>), Str(<<"u", "s", "d", " ">>), Str(<<" ", "g", "b", "p">>),
         Str(<<"x", "y", "z">>), Str(<<"E", "U">>), Str(<<"E", "U", "R", "O">>),
         Str(<<"e", "u", " ", "r">>)}
      \* numbers, texts of numbers and other values
      NumericValues ==
        {Undefined, Null, Bool(TRUE), Num(NaN), Num(PosInf), Num(NegInf),
         Num(Fin(MaxFinite)), Num(Fin(-Unit)), Num(Fin(-1)), Num(Zero), Num(Fin(1)),
         Num(Fin(Unit \div 2)), Num(Fin(Unit)), Num(Fin(Unit + 1)), Num(Fin(2 * Unit)),
         Str(<<>>), Str(<<" ">>), Str(<<"x">>), Str(<<"t", "w", "o">>),
         Str(<<"N", "a", "N">>), Str(<<"2">>), Str(<<" ", "2">>), Str(<<"2", " ">>),
         Str(<<"+", "1">>), Str(<<"1">>), Str(<<"1", ".", "5", "0">>), Str(<<".", "5">>),
         Str(<<"1", ".">>), Str(<<"0">>), Str(<<"0", ".", "0">>), Str(<<"-", "1">>),
         Str(<<"-", "0", ".", "5">>), Str(<<"1", ".", "2", "5">>), Str(<<"2", "e", "0">>),
         Str(<<"5", "e", "-", "1">>), Str(<<"I", "n", "f", "i", "n", "i", "t", "y">>),
         Str(<<"-", "I", "n", "f", "i", "n", "i", "t", "y">>),
         Str(<<"2", "x">>), Str(<<"0", ".", "5", "x">>),
         Str(<<"1", ".", "5", ".", "5">>), Str(<<"2", "e">>)}
      StringValues ==
        {Undefined, Null, Num(Zero), Bool(TRUE), Arr(<<>>), Str(<<>>), Str(<<" ">>),
         Str(<<" ", "\n">>), Str(<<"b">>), Str(<<" ", "b", " ", "c", "\n">>)}
      Elements ==
        {Get(MinimalInvoice, "lineItems").a[1],
         Obj([description |-> Str(<<" ">>), quantity |-> Num(Zero),
              unitPrice |-> Str(<<"-", "1">>), unit |-> Num(Zero)]),
         Str(<<"a">>), Null}
  IN {WithDates(IsoString(y, m, d), Undefined) :
        y \in {1900, 2000, 2024, 2025}, m \in 0..MaxMonth, d \in 0..MaxDay}
     \cup {WithDates(text, Undefined) : text \in DateTexts}
     \cup {WithDates(IsoString(2025, 1, 5), text) : text \in DateTexts}
     \cup {WithDates(issueDate, dueDate) :
             issueDate \in OrderDates, dueDate \in OrderDates}
     \cup {InHeader("currency", value) : value \in CurrencyTexts}
     \cup {InHeader("taxRate", value) : value \in NumericValues}
     \cup {InItem(field, value) :
             field \in {"quantity", "unitPrice"}, value \in NumericValues}
     \cup {InItem("description", value) : value \in StringValues}
     \cup {InHeader("invoiceNumber", value) : value \in StringValues}
     \cup {InGroup("business", field, value) :
             field \in {"name", "address", "email"}, value \in StringValues}
     \cup {InGroup("client", field, value) :
             field \in {"name", "address"}, value \in StringValues}
     \cup {Put(MinimalInvoice, "lineItems", value) : value \in LineItemsValues \cup {Null}}
     \cup {Put(MinimalInvoice, "lineItems", Arr(items)) :
             items \in UNION {[1..n -> Elements] : n \in 1..MaxItems}}

\* -------------------------------------------------------------------------
\* State: what the callers hold
\* -------------------------------------------------------------------------
VARIABLES
  input,       \* the raw input
  edits,       \* number of edits the callers made
  validation,  \* result of validateDraft(input)
  draft,       \* the typed draft a caller holds
  computed,    \* the InvoiceComputed a caller holds
  invoice,     \* result of formatInvoice(computed, options)
  options,     \* the options of the last formatInvoice or processInvoice
  result,      \* result of processInvoice(input, options)
  calls,       \* the stages the last processInvoice invoked
  lastOp       \* the last operation

vars == <<input, edits, validation, draft, computed, invoice, options, result, calls, lastOp>>

Fresh ==
  /\ edits = 0
  /\ validation = Undefined
  /\ draft = Undefined
  /\ computed = Undefined
  /\ invoice = Undefined
  /\ options = NoOptions
  /\ result = Undefined
  /\ calls = <<>>

Init ==
  /\ input \in BaseInputs
  /\ Fresh
  /\ lastOp = "init"

\* ---- the caller assembles the raw input ----
CanEdit == lastOp \in {"init", "edit"} /\ edits < MaxEdits

Edited(newInput) ==
  /\ input' = newInput
  /\ edits' = edits + 1
  /\ lastOp' = "edit"
  /\ UNCHANGED <<validation, draft, computed, invoice, options, result, calls>>

SetInput(value) ==
  /\ CanEdit
  /\ Edited(value)

SetGroup(group, value) ==
  /\ CanEdit
  /\ input.t = "object"
  /\ Edited(Put(input, group, value))

SetField(group, field, value) ==
  /\ CanEdit
  /\ input.t = "object"
  /\ Get(input, group).t = "object"
  /\ field \in DOMAIN Get(input, group).o
  /\ value \in FieldValues(group, field)
  /\ Edited(Put(input, group, Put(Get(input, group), field, value)))

SetItem(i, value) ==
  /\ CanEdit
  /\ input.t = "object"
  /\ Get(input, "lineItems").t = "array"
  /\ i \in 1..Len(Get(input, "lineItems").a)
  /\ Edited(Put(input, "lineItems",
                Arr([Get(input, "lineItems").a EXCEPT ![i] = value])))

SetItemField(i, field, value) ==
  /\ CanEdit
  /\ input.t = "object"
  /\ Get(input, "lineItems").t = "array"
  /\ i \in 1..Len(Get(input, "lineItems").a)
  /\ Get(input, "lineItems").a[i].t = "object"
  /\ value \in FieldValues("lineItems", field)
  /\ Edited(Put(input, "lineItems",
                Arr([Get(input, "lineItems").a EXCEPT
                       ![i] = Put(Get(input, "lineItems").a[i], field, value)])))

PushItem(value) ==
  /\ CanEdit
  /\ input.t = "object"
  /\ Get(input, "lineItems").t = "array"
  /\ Len(Get(input, "lineItems").a) < MaxItems
  /\ Edited(Put(input, "lineItems", Arr(Append(Get(input, "lineItems").a, value))))

\* ---- the stages, called one by one ----
ValidateDraft ==
  /\ lastOp \in {"init", "edit"}
  /\ validation' = validateDraft(input)
  /\ draft' = IF validation'.ok THEN validation'.draft ELSE Undefined
  /\ lastOp' = "validateDraft"
  /\ UNCHANGED <<input, edits, computed, invoice, options, result, calls>>

\* a computeInvoice that stores the totals in the draft it was given
\* (draft.computed = computed) and returns that draft
ComputeInvoiceInPlace ==
  /\ lastOp \in {"validateDraft", "editDraft"}
  /\ draft # Undefined
  /\ computed' = computeInvoice(draft)
  /\ draft' = computed'
  /\ lastOp' = "computeInvoice"
  /\ UNCHANGED <<input, edits, validation, invoice, options, result, calls>>

ComputeInvoice ==
  /\ lastOp \in {"validateDraft", "editDraft"}
  /\ draft # Undefined
  /\ computed' = computeInvoice(draft)
  /\ lastOp' = "computeInvoice"
  /\ UNCHANGED <<input, edits, validation, draft, invoice, options, result, calls>>

RecomputeInvoice ==
  /\ lastOp \in {"computeInvoice", "editComputed"}
  /\ computed' = recomputeInvoice(computed)
  /\ lastOp' = "recomputeInvoice"
  /\ UNCHANGED <<input, edits, validation, draft, invoice, options, result, calls>>

FormatInvoice(opts) ==
  /\ lastOp \in {"computeInvoice", "recomputeInvoice"}
  /\ invoice' = formatInvoice(computed, opts)
  /\ options' = opts
  /\ lastOp' = "formatInvoice"
  /\ UNCHANGED <<input, edits, validation, draft, computed, result, calls>>

\* ---- the pipeline ----
ProcessInvoice(opts) ==
  /\ lastOp \in {"init", "edit"}
  /\ \E returned \in {processInvoice(input, opts)} :
       /\ result' = returned.result
       /\ calls' = returned.calls
  /\ options' = opts
  /\ lastOp' = "processInvoice"
  /\ UNCHANGED <<input, edits, validation, draft, computed, invoice>>

\* ---- a caller edits the typed draft it holds, before computing ----
DraftEdited(newDraft) ==
  /\ draft' = newDraft
  /\ lastOp' = "editDraft"
  /\ UNCHANGED <<input, edits, validation, computed, invoice, options, result, calls>>

DraftPushItem(item) ==
  /\ lastOp \in {"validateDraft", "editDraft"}
  /\ draft # Undefined
  /\ Len(Get(draft, "lineItems").a) < MaxItems
  /\ DraftEdited(WithLineItems(draft, Append(Get(draft, "lineItems").a, item)))

DraftPopItem ==
  /\ lastOp \in {"validateDraft", "editDraft"}
  /\ draft # Undefined
  /\ Len(Get(draft, "lineItems").a) > 0
  /\ DraftEdited(WithLineItems(draft,
                   SubSeq(Get(draft, "lineItems").a, 1, Len(Get(draft, "lineItems").a) - 1)))

DraftSetTaxRate(rate) ==
  /\ lastOp \in {"validateDraft", "editDraft"}
  /\ draft # Undefined
  /\ DraftEdited(WithTaxRate(draft, rate))

\* ---- a caller edits the computed invoice it holds; the totals go stale ----
CanEditComputed ==
  /\ lastOp \in {"computeInvoice", "recomputeInvoice", "editComputed"}
  /\ edits < MaxEdits

ComputedEdited(newComputed) ==
  /\ computed' = newComputed
  /\ edits' = edits + 1
  /\ lastOp' = "editComputed"
  /\ UNCHANGED <<input, validation, draft, invoice, options, result, calls>>

ComputedSetItem(i, item) ==
  /\ CanEditComputed
  /\ i \in 1..Len(Get(computed, "lineItems").a)
  /\ ComputedEdited(WithLineItems(computed, [Get(computed, "lineItems").a EXCEPT ![i] = item]))

ComputedPushItem(item) ==
  /\ CanEditComputed
  /\ Len(Get(computed, "lineItems").a) < MaxItems
  /\ ComputedEdited(WithLineItems(computed, Append(Get(computed, "lineItems").a, item)))

ComputedPopItem ==
  /\ CanEditComputed
  /\ Len(Get(computed, "lineItems").a) > 0
  /\ ComputedEdited(WithLineItems(computed,
                      SubSeq(Get(computed, "lineItems").a, 1,
                             Len(Get(computed, "lineItems").a) - 1)))

ComputedSetTaxRate(rate) ==
  /\ CanEditComputed
  /\ ComputedEdited(WithTaxRate(computed, rate))

\* -------------------------------------------------------------------------
\* Specifications
\* -------------------------------------------------------------------------
\* raw input -> validateDraft -> computeInvoice -> formatInvoice, and processInvoice
Next ==
  \/ \E value \in NonObjectValues \cup {DateObj(TRUE, 2025, 1, 5)} : SetInput(value)
  \/ \E group \in GroupNames, value \in NonObjectParts : SetGroup(group, value)
  \/ \E value \in LineItemsValues : SetGroup("lineItems", value)
  \/ \E group \in GroupNames,
        field \in {"name", "address", "email", "phone", "logoUrl", "taxId",
                   "invoiceNumber", "issueDate", "dueDate", "currency", "taxRate", "notes"},
        value \in RequiredStringValues \cup OptionalStringValues \cup DateValues
                  \cup CurrencyValues \cup TaxRateValues :
        SetField(group, field, value)
  \/ \E i \in 1..MaxItems, value \in NonObjectParts : SetItem(i, value)
  \/ \E i \in 1..MaxItems,
        field \in {"description", "quantity", "unitPrice", "unit"},
        value \in RequiredStringValues \cup OptionalStringValues \cup NumberValues :
        SetItemField(i, field, value)
  \/ \E value \in NewItems \cup {Null} : PushItem(value)
  \/ ValidateDraft
  \/ ComputeInvoice
  \/ \E opts \in OptionValues : FormatInvoice(opts)
  \/ \E opts \in PipelineOptionValues : ProcessInvoice(opts)

Spec == Init /\ [][Next]_vars

\* typed draft -> computeInvoice -> edits -> recomputeInvoice
InitCompute ==
  /\ input = MinimalInvoice
  /\ edits = 0
  /\ validation = validateDraft(input)
  /\ draft = validation.draft
  /\ computed = Undefined
  /\ invoice = Undefined
  /\ options = NoOptions
  /\ result = Undefined
  /\ calls = <<>>
  /\ lastOp = "validateDraft"

NextCompute ==
  \/ \E item \in TypedItems : DraftPushItem(item)
  \/ DraftPopItem
  \/ \E rate \in TypedRates : DraftSetTaxRate(rate)
  \/ ComputeInvoice
  \/ \E i \in 1..MaxItems, item \in TypedItems : ComputedSetItem(i, item)
  \/ \E item \in TypedItems : ComputedPushItem(item)
  \/ ComputedPopItem
  \/ \E rate \in TypedRates : ComputedSetTaxRate(rate)
  \/ RecomputeInvoice

SpecCompute == InitCompute /\ [][NextCompute]_vars

\* one part of the valid invoice replaced -> validateDraft
InitFields ==
  /\ input \in FieldInputs
  /\ Fresh
  /\ lastOp = "init"

SpecFields == InitFields /\ [][ValidateDraft]_vars

\* ---- the sheets adapter converts between paths and cells ----
PathToCell ==
  /\ lastOp = "init"
  /\ result' = pathToCell(input.s)
  /\ lastOp' = "pathToCell"
  /\ UNCHANGED <<input, edits, validation, draft, computed, invoice, options, calls>>

CellToPath ==
  /\ lastOp = "init"
  /\ result' = cellToPath(input.s)
  /\ lastOp' = "cellToPath"
  /\ UNCHANGED <<input, edits, validation, draft, computed, invoice, options, calls>>

\* a path or a cell -> pathToCell, cellToPath
SpecCells ==
  /\ LET Columns == {<<"A">>, <<"B">>, <<"C">>, <<"D">>, <<"E">>, <<"Z">>, <<"A", "A">>}
           Fields == {LINE_ITEMS_CONFIG.columns[c][1] : c \in DOMAIN LINE_ITEMS_CONFIG.columns}
           Cells ==
             {col \o NatDigits(row) : col \in Columns, row \in 1..MaxRow}
             \cup {<<>>,
                   <<"1", "6">>,
                   <<"A">>,
                   <<"b", "3">>,
                   <<"B", "3", " ">>,
                   <<"B", "0", "3">>,
                   <<"A", "0", "1", "6">>,
                   <<"D", "1", "6", "x">>,
                   <<"$", "B", "$", "3">>}
           Paths ==
             {METADATA_CELLS[e][1] : e \in DOMAIN METADATA_CELLS}
             \cup {<<"l", "i", "n", "e", "I", "t", "e", "m", "s", "[">> \o NatDigits(index) \o <<"]", ".">> \o field :
                     index \in 0..(MaxRow - LINE_ITEMS_CONFIG.firstDataRow), field \in Fields}
             \cup {<<"u", "n", "k", "n", "o", "w", "n", ".", "f", "i", "e", "l", "d">>,
                   <<"b", "u", "s", "i", "n", "e", "s", "s", ".", "n", "a", "m", "e">>,
                   <<"l", "i", "n", "e", "I", "t", "e", "m", "s">>,
                   <<"l", "i", "n", "e", "I", "t", "e", "m", "s", "[", "0", "]">>,
                   <<"l", "i", "n", "e", "I", "t", "e", "m", "s", "[", "x", "]", ".", "q", "u", "a", "n", "t", "i", "t", "y">>,
                   <<"l", "i", "n", "e", "I", "t", "e", "m", "s", "[", "0", "]", ".", "u", "n", "i", "t">>,
                   <<"l", "i", "n", "e", "I", "t", "e", "m", "s", "[", "0", "]", "q", "u", "a", "n", "t", "i", "t", "y">>,
                   <<"l", "i", "n", "e", "I", "t", "e", "m", "s", "[", "0", "]", ".", "u", "n", "i", "t", " ", "p", "r", "i", "c", "e">>}
       IN /\ input \in {Str(text) : text \in Cells \cup Paths}
          /\ Fresh
          /\ lastOp = "init"
  /\ [][PathToCell \/ CellToPath]_vars

\* -------------------------------------------------------------------------
\* Properties of validateDraft and processInvoice, under Spec
\* -------------------------------------------------------------------------
Range(seq) == {seq[i] : i \in DOMAIN seq}

Validated == lastOp = "validateDraft"

\* the four group validators of g each produced a defined value
AllGroupsDefined(g) ==
  /\ g.business # Undefined
  /\ g.client # Undefined
  /\ g.header # Undefined
  /\ g.lineItems # Undefined

\* result is what C1 asks of validateDraft for the group validations g
OkIffCleanAndComplete(g, returned) ==
  IF g.issues = <<>> /\ AllGroupsDefined(g)
  THEN returned.ok
  ELSE ~returned.ok /\ returned.issues = g.issues

\* C1: validateDraft returns ok:true exactly when, after the four groups have
\* been checked, the accumulated issue list is empty and every group validator
\* produced a defined value; otherwise it returns ok:false with the whole
\* accumulated issue list.  So an issue on an optional field alone gives
\* ok:false.
C1_OkIffNoIssuesAndAllGroups ==
  (Validated /\ isObject(input)) => OkIffCleanAndComplete(DraftGroups(input), validation)

\* every group is defined and every required field valid, and the only issues
\* are on optional fields or on the order of the dates
OptionalIssueOnly(g, returned) ==
  /\ AllGroupsDefined(g)
  /\ g.issues # <<>>
  /\ ~returned.ok
  /\ returned.issues = g.issues

C1_Witness == Validated /\ isObject(input) /\ OptionalIssueOnly(DraftGroups(input), validation)

\* a non-empty string with no white space at either end
TrimmedNonEmpty(value) ==
  /\ value.t = "string"
  /\ value.s # <<>>
  /\ value.s[1] \notin WhiteSpace
  /\ value.s[Len(value.s)] \notin WhiteSpace

\* item is a line item of a draft made from the raw item
TypedItemOf(item, raw) ==
  /\ item.t = "object"
  /\ TrimmedNonEmpty(Get(item, "description"))
  /\ Get(item, "description").s = trim(Get(raw, "description").s)
  /\ isNumber(Get(item, "quantity"))
  /\ isNumber(Get(item, "unitPrice"))

\* d is a complete draft of the raw input
CompleteDraft(d, raw) ==
  /\ d.t = "object"
  /\ DOMAIN d.o = {"business", "client", "header", "lineItems"}
  /\ \A field \in {"name", "address", "email"} :
       TrimmedNonEmpty(Get(Get(d, "business"), field))
  /\ \A field \in {"name", "address"} : TrimmedNonEmpty(Get(Get(d, "client"), field))
  /\ \A field \in {"invoiceNumber", "issueDate", "currency"} :
       TrimmedNonEmpty(Get(Get(d, "header"), field))
  /\ Get(d, "lineItems").t = "array"
  /\ Len(Get(d, "lineItems").a) > 0
  /\ Get(raw, "lineItems").t = "array"
  /\ Len(Get(d, "lineItems").a) = Len(Get(raw, "lineItems").a)
  /\ \A i \in 1..Len(Get(d, "lineItems").a) :
       TypedItemOf(Get(d, "lineItems").a[i], Get(raw, "lineItems").a[i])

\* C2: there are no partial drafts.  Whenever validateDraft returns ok:true
\* the draft has all four groups; the required strings of business, client
\* and header are non-empty and carry no white space at either end; and
\* lineItems is a non-empty array as long as the input's, in the input's
\* order, each item with a non-empty description and a numeric quantity and
\* unitPrice.
C2_NoPartialDrafts ==
  (Validated /\ validation.ok) => CompleteDraft(validation.draft, input)

\* an accepted input with two line items whose business name was trimmed
C2_Witness ==
  /\ Validated
  /\ validation.ok
  /\ Len(Get(input, "lineItems").a) >= 2
  /\ Get(Get(input, "business"), "name") # Get(Get(validation.draft, "business"), "name")

\* the issues of the fields of business, each field validated on its own
BusinessFieldIssues(b) ==
  Range(validateRequiredString(b, "name", "business.name").issues)
  \cup Range(validateRequiredString(b, "address", "business.address").issues)
  \cup Range(validateRequiredString(b, "email", "business.email").issues)
  \cup Range(validateOptionalString(b, "phone", "business.phone").issues)
  \cup Range(validateOptionalString(b, "logoUrl", "business.logoUrl").issues)
  \cup Range(validateOptionalString(b, "taxId", "business.taxId").issues)

ClientFieldIssues(c) ==
  Range(validateRequiredString(c, "name", "client.name").issues)
  \cup Range(validateRequiredString(c, "address", "client.address").issues)
  \cup Range(validateOptionalString(c, "email", "client.email").issues)

HeaderFieldIssues(h) ==
  Range(validateRequiredString(h, "invoiceNumber", "header.invoiceNumber").issues)
  \cup Range(validateIsoDate(h, "issueDate", "header.issueDate", TRUE).issues)
  \cup Range(validateIsoDate(h, "dueDate", "header.dueDate", FALSE).issues)
  \cup Range(validateCurrency(h, "currency", "header.currency").issues)
  \cup Range(validateOptionalNumber(h, "taxRate", "header.taxRate",
                                    [allowNegative |-> FALSE, min |-> Zero,
                                     max |-> Fin(Unit)]).issues)
  \cup Range(validateOptionalString(h, "notes", "header.notes").issues)

ItemFieldIssues(item, path) ==
  Range(validateRequiredString(item, "description", path \o ".description").issues)
  \cup Range(validateRequiredNumber(item, "quantity", path \o ".quantity",
                                    [allowNegative |-> FALSE, allowZero |-> FALSE]).issues)
  \cup Range(validateRequiredNumber(item, "unitPrice", path \o ".unitPrice",
                                    [allowNegative |-> FALSE]).issues)
  \cup Range(validateOptionalString(item, "unit", path \o ".unit").issues)

\* every field of every group and line item of the object raw that is invalid
\* on its own, as the issue its validator gives
FieldIssues(raw) ==
  (IF isObject(Get(raw, "business")) THEN BusinessFieldIssues(Get(raw, "business")) ELSE {})
  \cup (IF isObject(Get(raw, "client")) THEN ClientFieldIssues(Get(raw, "client")) ELSE {})
  \cup (IF isObject(Get(raw, "header")) THEN HeaderFieldIssues(Get(raw, "header")) ELSE {})
  \cup (IF isArray(Get(raw, "lineItems"))
        THEN UNION {IF isObject(Get(raw, "lineItems").a[i])
                    THEN ItemFieldIssues(Get(raw, "lineItems").a[i],
                                         "lineItems[" \o ToString(i - 1) \o "]")
                    ELSE {}
                    : i \in 1..Len(Get(raw, "lineItems").a)}
        ELSE {})

\* the issues returned by a validation, none when it is ok
ReturnedIssues(returned) == IF returned.ok THEN {} ELSE Range(returned.issues)

\* C3: validation never stops at the first error.  For an object input every
\* field of business, client, header and of every line item is checked
\* whatever failed before it, so each field that is invalid on its own has
\* its issue in the returned list; and the result is a value with an ok flag,
\* the issues are data and nothing is thrown.
C3_EveryInvalidFieldReported ==
  (Validated /\ isObject(input)) =>
    /\ validation.ok \in BOOLEAN
    /\ FieldIssues(input) \subseteq ReturnedIssues(validation)

\* issues in three groups at once, a negative unit price among them, and two
\* failing fields in one group
C3_Witness ==
  /\ Validated
  /\ ~validation.ok
  /\ issue("NEGATIVE_NUMBER", "lineItems[0].unitPrice", "Use a positive number")
       \in Range(validation.issues)
  /\ issue("MISSING_REQUIRED", "business.name", "") \in Range(validation.issues)
  /\ issue("INVALID_TYPE", "business.address", "") \in Range(validation.issues)
  /\ issue("INVALID_TYPE", "header.invoiceNumber", "") \in Range(validation.issues)

\* what C4 asks of processInvoice for the validation of its input
PipelineOf(returned, opts, res, log) ==
  IF ~returned.ok
  THEN /\ res = [ok |-> FALSE, issues |-> returned.issues]
       /\ log = <<"validateDraft">>
  ELSE /\ res.ok
       /\ res.computed = computeInvoice(returned.draft)
       /\ res.invoice = formatInvoice(res.computed, opts)
       /\ log = <<"validateDraft", "computeInvoice", "formatInvoice">>

\* C4: processInvoice validates, then computes, then formats.  When the
\* validation fails it returns ok:false with exactly the validator's issues
\* and invokes neither computeInvoice nor formatInvoice; when it succeeds it
\* returns ok:true with computed = computeInvoice(draft) and invoice =
\* formatInvoice(computed, options) for the validated draft.
C4_PipelineOrder ==
  lastOp = "processInvoice" => PipelineOf(validateDraft(input), options, result, calls)

\* a failed validation with several issues: the pipeline stopped after it
C4_Witness ==
  /\ lastOp = "processInvoice"
  /\ ~result.ok
  /\ Len(result.issues) > 1
  /\ calls = <<"validateDraft">>

\* C5: when the top-level input is not a non-array object (null, undefined,
\* a string, a number, a boolean, an array) validateDraft returns ok:false
\* with exactly one issue, of code INVALID_TYPE at the empty path, and checks
\* no group and no field.
C5_NonObjectInput ==
  (Validated /\ input.t \notin {"object", "date"}) =>
    validation = [ok |-> FALSE, issues |-> <<issue("INVALID_TYPE", "", "")>>]

\* an array given as the input
C5_Witness ==
  /\ Validated
  /\ input.t = "array"
  /\ validation.issues = <<issue("INVALID_TYPE", "", "")>>

\* -------------------------------------------------------------------------
\* Properties of computeInvoice and recomputeInvoice, under SpecCompute
\* -------------------------------------------------------------------------
Computed == lastOp \in {"computeInvoice", "recomputeInvoice"}

\* the numbers of an array of numbers
Numbers(array) == [i \in 1..Len(array.a) |-> array.a[i].n]

\* the totals of a computed invoice
AmountsOf(inv) == Numbers(Get(Get(inv, "computed"), "lineItemAmounts"))
SubtotalOf(inv) == Get(Get(inv, "computed"), "subtotal").n
TaxAmountOf(inv) == Get(Get(inv, "computed"), "taxAmount").n
TotalOf(inv) == Get(Get(inv, "computed"), "total").n
TaxRateOf(inv) == Get(Get(inv, "header"), "taxRate")
ItemsOf(inv) == Get(inv, "lineItems").a

\* amounts holds the product quantity * unitPrice of each item, in order
ProductsInOrder(items, amounts) ==
  /\ Len(amounts) = Len(items)
  /\ \A i \in 1..Len(items) :
       amounts[i] = FMul(Get(items[i], "quantity").n, Get(items[i], "unitPrice").n)

\* C6: computeInvoice returns lineItemAmounts with one entry per line item,
\* in the order of lineItems, entry i being lineItems[i].quantity times
\* lineItems[i].unitPrice, the product of the two numbers and nothing else
\* (it is not rounded to cents).
C6_LineItemAmounts == Computed => ProductsInOrder(ItemsOf(computed), AmountsOf(computed))

\* two items of different amounts, the second one a fraction of a unit
C6_Witness ==
  /\ lastOp = "computeInvoice"
  /\ Len(ItemsOf(computed)) >= 2
  /\ AmountsOf(computed)[1] = Fin(8 * Unit)
  /\ AmountsOf(computed)[2] = Fin(Unit \div 4)

\* the sum of amounts taken from the left, starting from 0
RECURSIVE SumLeftToRight(_)
SumLeftToRight(amounts) ==
  IF amounts = <<>> THEN Zero
  ELSE FAdd(SumLeftToRight(SubSeq(amounts, 1, Len(amounts) - 1)), amounts[Len(amounts)])

\* C7: the subtotal returned by computeInvoice is the sum of lineItemAmounts
\* accumulated from left to right in array order starting from 0, for every
\* number of line items, and 0 for an empty list.
C7_SubtotalIsLeftSum == Computed => SubtotalOf(computed) = SumLeftToRight(AmountsOf(computed))

\* three amounts whose sum from the left is not their sum from the right
C7_Witness ==
  /\ lastOp = "computeInvoice"
  /\ Len(AmountsOf(computed)) = 3
  /\ SubtotalOf(computed) # FAdd(AmountsOf(computed)[1],
                                 FAdd(AmountsOf(computed)[2], AmountsOf(computed)[3]))

\* the totals are those C8 states for the tax rate
TaxAndTotal(rate, subtotal, taxAmount, total) ==
  /\ taxAmount = IF rate = Undefined THEN Zero ELSE FMul(subtotal, rate.n)
  /\ total = FAdd(subtotal, taxAmount)
  /\ (rate = Undefined \/ rate = Num(Zero)) => (taxAmount = Zero /\ total = subtotal)

\* C8: computeInvoice returns taxAmount = subtotal * header.taxRate when a
\* tax rate is present and 0 when it is absent, and total = subtotal +
\* taxAmount; so with the tax rate omitted or 0, taxAmount is 0 and total is
\* the subtotal.
C8_TaxAndTotal ==
  lastOp = "computeInvoice" =>
    TaxAndTotal(TaxRateOf(computed), SubtotalOf(computed),
                TaxAmountOf(computed), TotalOf(computed))

\* C9: recomputeInvoice discards the totals its argument came with and
\* returns the totals computeInvoice yields for the argument's business,
\* client, header and lineItems; after any edits followed by recomputeInvoice
\* the totals are those of the current line items and tax rate.
C9_RecomputeFromScratch ==
  lastOp = "recomputeInvoice" => computed = computeInvoice(WithoutComputed(computed))

\* the invoice was edited after it was computed: the totals it had are not
\* the totals it has after recomputeInvoice
C9_Witness ==
  /\ lastOp = "recomputeInvoice"
  /\ edits > 0
  /\ Get(computed, "computed") # Get(computeInvoice(draft), "computed")
  /\ Len(ItemsOf(computed)) # Len(ItemsOf(draft))

\* -------------------------------------------------------------------------
\* validateDraft on its own output, under Spec
\* -------------------------------------------------------------------------
\* C10: validation is idempotent on its own output.  If validateDraft(x)
\* returns ok:true with draft d then validateDraft(d) returns ok:true with a
\* draft equal to d, for every accepted input x.
C10_Idempotent ==
  (Validated /\ validation.ok) =>
    validateDraft(validation.draft) = [ok |-> TRUE, draft |-> validation.draft]

\* -------------------------------------------------------------------------
\* Dates and numbers of validateDraft, under SpecFields
\* -------------------------------------------------------------------------
HeaderOf(raw) == Get(raw, "header")

\* the issues of code `code` that validateDraft returned at path `path`
IssuesAt(returned, code, path) ==
  {i \in ReturnedIssues(returned) : i.code = code /\ i.path = path}

\* the calendar day a date value denotes: <<year, month, day>>
DayOf(value) ==
  IF value.t = "date" THEN <<value.y, value.mo, value.d>>
  ELSE <<DigitsValue(trim(value.s), 1, 4), DigitsValue(trim(value.s), 6, 2),
         DigitsValue(trim(value.s), 9, 2)>>

\* day a comes before day b in the calendar
Earlier(a, b) ==
  \/ a[1] < b[1]
  \/ a[1] = b[1] /\ a[2] < b[2]
  \/ a[1] = b[1] /\ a[2] = b[2] /\ a[3] < b[3]

\* header.issueDate and header.dueDate of raw are both given and each passes
\* validateIsoDate on its own
BothDatesValid(raw) ==
  /\ Truthy(validateIsoDate(HeaderOf(raw), "issueDate", "header.issueDate", TRUE).val)
  /\ Truthy(validateIsoDate(HeaderOf(raw), "dueDate", "header.dueDate", FALSE).val)

\* C11: when issueDate and dueDate are both individually valid, a DATE_ORDER
\* issue is reported at header.dueDate exactly when the due date is
\* chronologically earlier than the issue date; equal dates are accepted.
C11_DateOrder ==
  (Validated /\ BothDatesValid(input)) =>
    (IssuesAt(validation, "DATE_ORDER", "header.dueDate") # {}
       <=> Earlier(DayOf(Get(HeaderOf(input), "dueDate")),
                   DayOf(Get(HeaderOf(input), "issueDate"))))

\* the issues validateDraft returned at path `path`, in the order returned
IssueSeqAt(returned, path) ==
  IF returned.ok THEN <<>>
  ELSE SelectSeq(returned.issues, LAMBDA i : i.path = path)

\* year y has a month m with a day d
RealDay(y, m, d) ==
  /\ m \in 1..12
  /\ d >= 1
  /\ d <= CASE m \in {1, 3, 5, 7, 8, 10, 12} -> 31
            [] m \in {4, 6, 9, 11} -> 30
            [] OTHER -> IF y % 400 = 0 \/ (y % 4 = 0 /\ y % 100 # 0) THEN 29 ELSE 28

\* header.issueDate of raw is a text of the form yyyy-mm-dd
IssueDateIsIsoText(raw) ==
  /\ isString(Get(HeaderOf(raw), "issueDate"))
  /\ ISO_DATE_REGEX(Get(HeaderOf(raw), "issueDate").s)

\* the year, month and day written in header.issueDate of raw
IssueDay(raw) == DayOf(Get(HeaderOf(raw), "issueDate"))

\* C12: a date string of the form YYYY-MM-DD is accepted exactly when it
\* names a real calendar day (month 1..12, day 1..days in that month, leap
\* years observed), and is then kept as written; every other such string
\* gives exactly one INVALID_DATE issue at its path and is never rolled over
\* into a later day.
C12_CalendarDates ==
  (Validated /\ IssueDateIsIsoText(input)) =>
    IF RealDay(IssueDay(input)[1], IssueDay(input)[2], IssueDay(input)[3])
    THEN /\ IssueSeqAt(validation, "header.issueDate") = <<>>
         /\ validation.ok =>
              Get(Get(validation.draft, "header"), "issueDate")
                = Get(HeaderOf(input), "issueDate")
    ELSE /\ ~validation.ok
         /\ IssueSeqAt(validation, "header.issueDate")
              = <<issue("INVALID_DATE", "header.issueDate", "")>>

\* 29 February of a year that is not a leap year was rejected
C12_Witness ==
  /\ Validated
  /\ Get(HeaderOf(input), "issueDate") = IsoString(2025, 2, 29)
  /\ IssuesAt(validation, "INVALID_DATE", "header.issueDate") # {}

\* the two date fields of the header
DateFields == {"issueDate", "dueDate"}

\* field f of the header of raw is a text that is not empty
DateIsText(raw, f) ==
  /\ isString(Get(HeaderOf(raw), f))
  /\ Get(HeaderOf(raw), f) # Str(<<>>)

\* validateDraft returned exactly one issue at the header's field f, an
\* INVALID_FORMAT
OnlyInvalidFormat(returned, f) ==
  /\ ~returned.ok
  /\ Len(IssueSeqAt(returned, "header." \o f)) = 1
  /\ IssueSeqAt(returned, "header." \o f)[1].code = "INVALID_FORMAT"

\* C13 as stated: a string date is accepted only if it matches YYYY-MM-DD
\* exactly and nothing else; every other non-empty string gives
\* INVALID_FORMAT.
C13_ExactFormat ==
  Validated =>
    \A f \in DateFields :
      (DateIsText(input, f) /\ ~ISO_DATE_REGEX(Get(HeaderOf(input), f).s)) =>
        OnlyInvalidFormat(validation, f)

\* C13, amended: a non-empty string date gives INVALID_FORMAT (exactly one
\* issue at its path) exactly when the string with its leading and trailing
\* whitespace removed does not match YYYY-MM-DD; a string that does match
\* once trimmed is accepted like the trimmed string, and the draft holds the
\* trimmed string.
C13_TrimmedFormat ==
  Validated =>
    \A f \in DateFields :
      DateIsText(input, f) =>
        /\ ~ISO_DATE_REGEX(trim(Get(HeaderOf(input), f).s))
             => OnlyInvalidFormat(validation, f)
        /\ ISO_DATE_REGEX(trim(Get(HeaderOf(input), f).s))
             => /\ IssuesAt(validation, "INVALID_FORMAT", "header." \o f) = {}
                /\ validation.ok =>
                     Get(Get(validation.draft, "header"), f)
                       = Str(trim(Get(HeaderOf(input), f).s))

\* a date with a space before it was accepted, and the draft holds it without
\* the space
C13_Witness ==
  /\ Validated
  /\ validation.ok
  /\ Get(HeaderOf(input), "issueDate") = Str(<<" ">> \o IsoString(2025, 1, 5).s)
  /\ Get(Get(validation.draft, "header"), "issueDate") = IsoString(2025, 1, 5)

\* -------------------------------------------------------------------------
\* The currency, the line items array and the required strings, under
\* SpecFields
\* -------------------------------------------------------------------------
CurrencyOf(raw) == Get(HeaderOf(raw), "currency")

\* text s in upper case is one of the supported currency codes
Supported(s) == toUpperCase(s) \in SUPPORTED_CURRENCIES

\* validateDraft returned exactly one issue at header.currency, and it has
\* the code `code`
OnlyCurrencyIssue(returned, code) ==
  /\ ~returned.ok
  /\ Len(IssueSeqAt(returned, "header.currency")) = 1
  /\ IssueSeqAt(returned, "header.currency")[1].code = code

\* C14 as stated: a currency whose upper-case form is a supported code is
\* accepted and stored in upper case; a non-empty string whose upper-case
\* form is not supported gives exactly one INVALID_VALUE issue with a hint; a
\* missing or empty currency gives MISSING_REQUIRED and no INVALID_VALUE.
C14_CurrencyByUpperCase ==
  Validated =>
    /\ (isString(CurrencyOf(input)) /\ CurrencyOf(input) # Str(<<>>)
        /\ ~Supported(CurrencyOf(input).s))
         => /\ OnlyCurrencyIssue(validation, "INVALID_VALUE")
            /\ IssueSeqAt(validation, "header.currency")[1].hint # ""
    /\ (isString(CurrencyOf(input)) /\ Supported(CurrencyOf(input).s))
         => /\ IssueSeqAt(validation, "header.currency") = <<>>
            /\ validation.ok =>
                 Get(Get(validation.draft, "header"), "currency")
                   = Str(toUpperCase(CurrencyOf(input).s))
    /\ (CurrencyOf(input) \in {Undefined, Null, Str(<<>>)})
         => OnlyCurrencyIssue(validation, "MISSING_REQUIRED")

\* C14, amended: the currency is trimmed and then matched without regard to
\* case.  If the upper-case form of the trimmed string is a supported code
\* it is accepted and stored as that code; if the trimmed string is not
\* empty and its upper-case form is not supported there is exactly one
\* INVALID_VALUE issue with a hint; a missing, empty or whitespace-only
\* currency gives exactly one MISSING_REQUIRED and no INVALID_VALUE.
C14_CurrencyTrimmed ==
  Validated =>
    /\ (isString(CurrencyOf(input)) /\ trim(CurrencyOf(input).s) # <<>>
        /\ ~Supported(trim(CurrencyOf(input).s)))
         => /\ OnlyCurrencyIssue(validation, "INVALID_VALUE")
            /\ IssueSeqAt(validation, "header.currency")[1].hint # ""
    /\ (isString(CurrencyOf(input)) /\ Supported(trim(CurrencyOf(input).s)))
         => /\ IssueSeqAt(validation, "header.currency") = <<>>
            /\ validation.ok =>
                 /\ Get(Get(validation.draft, "header"), "currency")
                      = Str(toUpperCase(trim(CurrencyOf(input).s)))
                 /\ Get(Get(validation.draft, "header"), "currency").s
                      \in SUPPORTED_CURRENCIES
    /\ (\/ CurrencyOf(input) \in {Undefined, Null}
        \/ isString(CurrencyOf(input)) /\ trim(CurrencyOf(input).s) = <<>>)
         => OnlyCurrencyIssue(validation, "MISSING_REQUIRED")

\* a lower-case code followed by a space was accepted and stored as the
\* upper-case code
C14_Witness ==
  /\ Validated
  /\ validation.ok
  /\ CurrencyOf(input) = Str(<<"u", "s", "d", " ">>)
  /\ Get(Get(validation.draft, "header"), "currency") = Str(<<"U", "S", "D">>)

LineItemsOf(raw) == Get(raw, "lineItems")

\* raw is the valid invoice but for its lineItems
OnlyLineItemsDiffer(raw) == raw = Put(MinimalInvoice, "lineItems", LineItemsOf(raw))

\* C15: with the rest of the invoice valid, an empty lineItems array is
\* rejected with ok:false and exactly one issue, EMPTY_ARRAY at "lineItems";
\* a lineItems that is missing or not an array is rejected with the single
\* issue INVALID_TYPE at "lineItems".
C15_EmptyOrNoArray ==
  (Validated /\ OnlyLineItemsDiffer(input)) =>
    /\ LineItemsOf(input) = Arr(<<>>) =>
         /\ ~validation.ok
         /\ Len(validation.issues) = 1
         /\ validation.issues[1].code = "EMPTY_ARRAY"
         /\ validation.issues[1].path = "lineItems"
    /\ ~isArray(LineItemsOf(input)) =>
         /\ ~validation.ok
         /\ Len(validation.issues) = 1
         /\ validation.issues[1].code = "INVALID_TYPE"
         /\ validation.issues[1].path = "lineItems"

\* an empty array of line items was rejected
C15_Witness ==
  /\ Validated
  /\ OnlyLineItemsDiffer(input)
  /\ LineItemsOf(input) = Arr(<<>>)
  /\ ~validation.ok

\* the issues of element i (counted from 0) of the lineItems of raw, the
\* element taken on its own
ElementIssues(raw, i) ==
  IF isObject(LineItemsOf(raw).a[i + 1])
  THEN ItemFieldIssues(LineItemsOf(raw).a[i + 1], "lineItems[" \o ToString(i) \o "]")
  ELSE {issue("INVALID_TYPE", "lineItems[" \o ToString(i) \o "]", "")}

\* the places in the returned list of the issues of element i
PlacesOf(returned, raw, i) ==
  {k \in DOMAIN returned.issues : returned.issues[k] \in ElementIssues(raw, i)}

\* C16: with the rest of the invoice valid, every element of a non-empty
\* lineItems array is validated on its own: the result is ok exactly when no
\* element has an issue, and otherwise the issues returned are those of all
\* the elements, each addressed lineItems[i].<field> (lineItems[i] for an
\* element that is not an object), in the order of the elements; an element
\* that fails does not keep the later ones from being validated and
\* reported.
C16_EveryElementValidated ==
  (/\ Validated
   /\ OnlyLineItemsDiffer(input)
   /\ isArray(LineItemsOf(input))
   /\ Len(LineItemsOf(input).a) > 0) =>
    /\ validation.ok
         <=> \A i \in 0..(Len(LineItemsOf(input).a) - 1) : ElementIssues(input, i) = {}
    /\ ReturnedIssues(validation)
         = UNION {ElementIssues(input, i) : i \in 0..(Len(LineItemsOf(input).a) - 1)}
    /\ ~validation.ok =>
         \A i, j \in 0..(Len(LineItemsOf(input).a) - 1) :
           i < j => \A k \in PlacesOf(validation, input, i) :
                      \A l \in PlacesOf(validation, input, j) : k < l

\* the first element is not an object and a later one has an invalid
\* quantity: both are reported
C16_Witness ==
  /\ Validated
  /\ OnlyLineItemsDiffer(input)
  /\ isArray(LineItemsOf(input))
  /\ Len(LineItemsOf(input).a) > 1
  /\ IssuesAt(validation, "INVALID_TYPE", "lineItems[0]") # {}
  /\ IssuesAt(validation, "INVALID_VALUE", "lineItems[1].quantity") # {}
  /\ IssuesAt(validation, "NEGATIVE_NUMBER", "lineItems[1].unitPrice") # {}

\* the required string fields: where they are in the input and the path of
\* their issues (the description is that of the first line item)
RequiredStrings ==
  {[group |-> "business", field |-> "name", path |-> "business.name"],
   [group |-> "business", field |-> "address", path |-> "business.address"],
   [group |-> "business", field |-> "email", path |-> "business.email"],
   [group |-> "client", field |-> "name", path |-> "client.name"],
   [group |-> "client", field |-> "address", path |-> "client.address"],
   [group |-> "header", field |-> "invoiceNumber", path |-> "header.invoiceNumber"],
   [group |-> "lineItems", field |-> "description", path |-> "lineItems[0].description"]}

\* the object of raw that holds the required string r
HolderOf(raw, r) ==
  IF r.group # "lineItems" THEN Get(raw, r.group)
  ELSE IF isArray(LineItemsOf(raw)) /\ Len(LineItemsOf(raw).a) > 0
  THEN LineItemsOf(raw).a[1]
  ELSE Undefined

\* the object of the draft d that holds the required string r
DraftHolderOf(d, r) ==
  IF r.group # "lineItems" THEN Get(d, r.group) ELSE Get(d, "lineItems").a[1]

\* validateDraft returned exactly one issue at path `path`, of code `code`
OnlyIssueAt(returned, path, code) ==
  /\ ~returned.ok
  /\ Len(IssueSeqAt(returned, path)) = 1
  /\ IssueSeqAt(returned, path)[1].code = code

\* what the claim says of the value given for the required string r
RequiredStringRule(raw, returned, r, value) ==
  IF value \in {Undefined, Null} THEN OnlyIssueAt(returned, r.path, "MISSING_REQUIRED")
  ELSE IF ~isString(value) THEN OnlyIssueAt(returned, r.path, "INVALID_TYPE")
  ELSE IF \A k \in DOMAIN value.s : value.s[k] \in WhiteSpace
  THEN OnlyIssueAt(returned, r.path, "MISSING_REQUIRED")
  ELSE /\ IssueSeqAt(returned, r.path) = <<>>
       /\ returned.ok =>
            /\ Get(DraftHolderOf(returned.draft, r), r.field) = Str(trim(value.s))
            /\ Head(Get(DraftHolderOf(returned.draft, r), r.field).s) \notin WhiteSpace
            /\ Get(DraftHolderOf(returned.draft, r), r.field).s[Len(trim(value.s))]
                 \notin WhiteSpace

\* C17: each required string field (business.name, business.address,
\* business.email, client.name, client.address, header.invoiceNumber, a line
\* item's description) gives MISSING_REQUIRED when missing or null,
\* INVALID_TYPE when not a string, MISSING_REQUIRED when empty once trimmed,
\* each as exactly one issue at the field's path; any other string is
\* accepted and the draft holds it trimmed.
C17_RequiredStrings ==
  Validated =>
    \A r \in RequiredStrings :
      isObject(HolderOf(input, r)) =>
        RequiredStringRule(input, validation, r, Get(HolderOf(input, r), r.field))

\* a description with whitespace around it was accepted and is held trimmed
C17_Witness ==
  /\ Validated
  /\ validation.ok
  /\ Get(LineItemsOf(input).a[1], "description") = Str(<<" ", "b", " ", "c", "\n">>)
  /\ Get(Get(validation.draft, "lineItems").a[1], "description") = Str(<<"b", " ", "c">>)

\* -------------------------------------------------------------------------
\* Numbers of validateDraft, under SpecFields
\* -------------------------------------------------------------------------
\* the sign of a number that is not NaN
Positive(n) == n.k # "nan" /\ n.m > 0
Negative(n) == n.k # "nan" /\ n.m < 0

\* the path of field f of line item i, i counted from 0
ItemPath(i, f) == "lineItems[" \o ToString(i) \o "]." \o f

\* the elements of the lineItems of raw that are objects, counted from 0
ObjectItems(raw) ==
  IF ~isArray(LineItemsOf(raw)) THEN {}
  ELSE {i \in 0..(Len(LineItemsOf(raw).a) - 1) : isObject(LineItemsOf(raw).a[i + 1])}

\* field f of line item i of raw
ItemField(raw, i, f) == Get(LineItemsOf(raw).a[i + 1], f)

\* C18: a quantity given as a number is accepted only when it is greater
\* than 0: a negative one gives NEGATIVE_NUMBER and zero gives INVALID_VALUE
\* at lineItems[i].quantity; a unitPrice is accepted when it is 0 or more
\* and gives NEGATIVE_NUMBER when negative.  So every line item of a
\* validated draft has quantity > 0 and unitPrice >= 0.
C18_QuantityAndUnitPrice ==
  Validated =>
    /\ \A i \in ObjectItems(input) :
         /\ isNumber(ItemField(input, i, "quantity")) =>
              /\ Negative(ItemField(input, i, "quantity").n)
                   => OnlyIssueAt(validation, ItemPath(i, "quantity"), "NEGATIVE_NUMBER")
              /\ ItemField(input, i, "quantity").n = Zero
                   => OnlyIssueAt(validation, ItemPath(i, "quantity"), "INVALID_VALUE")
              /\ Positive(ItemField(input, i, "quantity").n)
                   => IssueSeqAt(validation, ItemPath(i, "quantity")) = <<>>
         /\ isNumber(ItemField(input, i, "unitPrice")) =>
              /\ Negative(ItemField(input, i, "unitPrice").n)
                   => OnlyIssueAt(validation, ItemPath(i, "unitPrice"), "NEGATIVE_NUMBER")
              /\ ~Negative(ItemField(input, i, "unitPrice").n)
                   => IssueSeqAt(validation, ItemPath(i, "unitPrice")) = <<>>
    /\ validation.ok =>
         \A i \in ObjectItems(validation.draft) :
           /\ isNumber(ItemField(validation.draft, i, "quantity"))
           /\ Positive(ItemField(validation.draft, i, "quantity").n)
           /\ isNumber(ItemField(validation.draft, i, "unitPrice"))
           /\ ~Negative(ItemField(validation.draft, i, "unitPrice").n)
           /\ isNumber(ItemField(input, i, "quantity"))
                => ItemField(validation.draft, i, "quantity") = ItemField(input, i, "quantity")
           /\ isNumber(ItemField(input, i, "unitPrice"))
                => ItemField(validation.draft, i, "unitPrice")
                     = ItemField(input, i, "unitPrice")

\* a quantity of zero was rejected as INVALID_VALUE
C18_Witness ==
  /\ Validated
  /\ ObjectItems(input) = {0}
  /\ ItemField(input, 0, "quantity") = Num(Zero)
  /\ ~validation.ok
  /\ validation.issues = <<issue("INVALID_VALUE", "lineItems[0].quantity", "")>>

TaxRateGiven(raw) == Get(HeaderOf(raw), "taxRate")

\* a number that is not NaN and is greater than 1
AboveOne(n) == n.k # "nan" /\ (IF n.k = "inf" THEN n.m > 0 ELSE n.m > Unit)

\* C19: a taxRate given as a number is accepted exactly when it is in [0, 1]:
\* 0 and 1 are accepted and kept (0 is not taken for absent), a negative
\* rate gives NEGATIVE_NUMBER and a rate above 1 gives INVALID_VALUE, each
\* as exactly one issue at header.taxRate with ok:false.  A missing, null or
\* empty-string taxRate gives no issue and a draft without taxRate.  The
\* taxRate of a validated draft, when present, is in [0, 1].
C19_TaxRateRange ==
  Validated =>
    /\ isNumber(TaxRateGiven(input)) =>
         /\ Negative(TaxRateGiven(input).n)
              => OnlyIssueAt(validation, "header.taxRate", "NEGATIVE_NUMBER")
         /\ AboveOne(TaxRateGiven(input).n)
              => OnlyIssueAt(validation, "header.taxRate", "INVALID_VALUE")
         /\ (~Negative(TaxRateGiven(input).n) /\ ~AboveOne(TaxRateGiven(input).n))
              => /\ IssueSeqAt(validation, "header.taxRate") = <<>>
                 /\ validation.ok =>
                      Get(HeaderOf(validation.draft), "taxRate") = TaxRateGiven(input)
    /\ TaxRateGiven(input) \in {Undefined, Null, Str(<<>>)} =>
         /\ IssueSeqAt(validation, "header.taxRate") = <<>>
         /\ validation.ok => Get(HeaderOf(validation.draft), "taxRate") = Undefined
    /\ validation.ok =>
         \/ Get(HeaderOf(validation.draft), "taxRate") = Undefined
         \/ /\ isNumber(Get(HeaderOf(validation.draft), "taxRate"))
            /\ ~Negative(Get(HeaderOf(validation.draft), "taxRate").n)
            /\ ~AboveOne(Get(HeaderOf(validation.draft), "taxRate").n)

\* a tax rate of 1 was accepted and kept
C19_Witness ==
  /\ Validated
  /\ validation.ok
  /\ TaxRateGiven(input) = Num(Fin(Unit))
  /\ Get(HeaderOf(validation.draft), "taxRate") = Num(Fin(Unit))

\* the numeric fields: quantity and unitPrice of the first line item, and
\* header.taxRate
NumericFields ==
  {[group |-> "lineItems", field |-> "quantity", path |-> "lineItems[0].quantity"],
   [group |-> "lineItems", field |-> "unitPrice", path |-> "lineItems[0].unitPrice"],
   [group |-> "header", field |-> "taxRate", path |-> "header.taxRate"]}

\* raw with the field r holding value in place of what it holds
WithField(raw, r, value) ==
  IF r.group = "lineItems"
  THEN Put(raw, "lineItems",
           Arr([LineItemsOf(raw).a EXCEPT ![1] = Put(@, r.field, value)]))
  ELSE Put(raw, r.group, Put(Get(raw, r.group), r.field, value))

AllDigits(s) == \A k \in DOMAIN s : isDigit(s[k])

\* digits, with at most one point among them, and at least one digit
IsMantissa(s) ==
  \/ s # <<>> /\ AllDigits(s)
  \/ \E k \in DOMAIN s :
       /\ s[k] = "."
       /\ Len(s) > 1
       /\ AllDigits(SubSeq(s, 1, k - 1))
       /\ AllDigits(SubSeq(s, k + 1, Len(s)))

\* digits with an optional sign before them
IsInteger(s) ==
  /\ s # <<>>
  /\ IF Head(s) \in {"+", "-"} THEN Tail(s) # <<>> /\ AllDigits(Tail(s)) ELSE AllDigits(s)

\* a decimal literal without sign, or Infinity
IsUnsigned(s) ==
  \/ s = <<"I", "n", "f", "i", "n", "i", "t", "y">>
  \/ IsMantissa(s)
  \/ \E k \in DOMAIN s :
       /\ s[k] \in {"e", "E"}
       /\ IsMantissa(SubSeq(s, 1, k - 1))
       /\ IsInteger(SubSeq(s, k + 1, Len(s)))

\* the whole of s, but for whitespace around it, is the text of a number
NumericString(s) ==
  /\ trim(s) # <<>>
  /\ IF Head(trim(s)) \in {"+", "-"} THEN IsUnsigned(Tail(trim(s)))
     ELSE IsUnsigned(trim(s))

\* C20: for quantity, unitPrice and taxRate a numeric string is treated
\* exactly like the number it denotes, with the same acceptance, the same
\* issue code and path, and the number in the draft; a string that is not
\* numeric gives INVALID_TYPE.  (The empty string as taxRate means no
\* taxRate.)
C20_NumericStrings ==
  Validated =>
    \A r \in NumericFields :
      (/\ isObject(HolderOf(input, r))
       /\ isString(Get(HolderOf(input, r), r.field))
       /\ ~(r.field = "taxRate" /\ Get(HolderOf(input, r), r.field) = Str(<<>>))) =>
        IF NumericString(Get(HolderOf(input, r), r.field).s)
        THEN validation
               = validateDraft(WithField(input, r,
                                 Num(parseFloat(Get(HolderOf(input, r), r.field).s))))
        ELSE OnlyIssueAt(validation, r.path, "INVALID_TYPE")

\* -------------------------------------------------------------------------
\* Properties of formatInvoice, under Spec
\* -------------------------------------------------------------------------
\* formatInvoice has just returned `invoice` for `computed`
Formatted == lastOp = "formatInvoice"

IsText(value) == value.t = "string"

\* every field of the object obj is a string
AllText(obj) == \A f \in DOMAIN obj.o : IsText(obj.o[f])

\* the optional field `from` of a part of the computed invoice is rendered
\* as field `to` of the same part of the formatted one: empty when absent,
\* not empty when present
RenderedOptional(source, target, from, to) ==
  IF Get(source, from) = Undefined
  THEN Get(target, to) = Str(<<>>)
  ELSE IsText(Get(target, to)) /\ Get(target, to) # Str(<<>>)

\* C21: in the output of formatInvoice every field is a string, never null
\* or undefined; each optional field absent on the input (business.phone,
\* logoUrl, taxId, client.email, header.dueDate, notes, taxRate via
\* taxRateDisplay, a line item's unit) is rendered as the empty string and
\* each one that is present is rendered non-empty.
C21_AllStrings ==
  Formatted =>
    /\ AllText(Get(invoice, "business"))
    /\ AllText(Get(invoice, "client"))
    /\ AllText(Get(invoice, "header"))
    /\ AllText(Get(invoice, "totals"))
    /\ \A i \in DOMAIN Get(invoice, "lineItems").a :
         /\ AllText(Get(invoice, "lineItems").a[i])
         /\ RenderedOptional(Get(computed, "lineItems").a[i],
                             Get(invoice, "lineItems").a[i], "unit", "unit")
    /\ \A f \in {"phone", "logoUrl", "taxId"} :
         RenderedOptional(Get(computed, "business"), Get(invoice, "business"), f, f)
    /\ RenderedOptional(Get(computed, "client"), Get(invoice, "client"), "email", "email")
    /\ \A f \in {"dueDate", "notes"} :
         RenderedOptional(Get(computed, "header"), Get(invoice, "header"), f, f)
    /\ RenderedOptional(Get(computed, "header"), Get(invoice, "header"),
                        "taxRate", "taxRateDisplay")

\* an invoice with some optional fields absent and others present was
\* formatted
C21_Witness ==
  /\ Formatted
  /\ Get(Get(computed, "business"), "phone") = Undefined
  /\ Get(Get(invoice, "business"), "phone") = Str(<<>>)
  /\ Get(Get(computed, "header"), "notes") # Undefined
  /\ Get(Get(computed, "header"), "taxRate") # Undefined
  /\ \E i \in DOMAIN Get(computed, "lineItems").a :
       Get(Get(computed, "lineItems").a[i], "unit") = Undefined

TaxRateDisplayOf(formatted) == Get(Get(formatted, "header"), "taxRateDisplay")

\* the text s is the decimal numeral of the natural number n: digits only,
\* no sign, no point, no % and no leading zero
Numeral(s, n) ==
  /\ s # <<>>
  /\ \A k \in DOMAIN s : isDigit(s[k])
  /\ Len(s) > 1 => Head(s) # "0"
  /\ DigitsValue(s, 1, Len(s)) = n

\* n is an integer nearest to the number x >= 0
NearestInteger(n, x) ==
  /\ x.k = "fin"
  /\ 2 * n * Unit - 2 * x.m <= Unit
  /\ 2 * x.m - 2 * n * Unit <= Unit

\* C22: formatInvoice sets header.taxRateDisplay to the tax rate multiplied
\* by 100, rounded to an integer and written in decimal without a % sign,
\* whenever header.taxRate is defined, a rate of 0 (which gives "0")
\* included; it is the empty string exactly when no tax rate was set.
C22_TaxRateDisplay ==
  Formatted =>
    /\ TaxRateOf(computed) = Undefined <=> TaxRateDisplayOf(invoice) = Str(<<>>)
    /\ TaxRateOf(computed) # Undefined =>
         \E n \in 0..100 :
           /\ Numeral(TaxRateDisplayOf(invoice).s, n)
           /\ NearestInteger(n, FMul(TaxRateOf(computed).n, FloatOfRatio(100 * Unit, 1)))
    /\ TaxRateOf(computed) = Num(Zero) => TaxRateDisplayOf(invoice) = Str(<<"0">>)
    /\ TaxRateOf(computed) = Num(Fin(Unit \div 2))
         => TaxRateDisplayOf(invoice) = Str(<<"5", "0">>)

\* a tax rate of 0 was rendered as "0"
C22_Witness ==
  /\ Formatted
  /\ TaxRateOf(computed) = Num(Zero)
  /\ TaxRateDisplayOf(invoice) = Str(<<"0">>)

\* the locales of the three formatters formatInvoice made, as its output
\* shows them: of the dates, of the quantities and of the amounts of money
LocalesOf(formatted) ==
  {Get(Get(formatted, "header"), "issueDate").intl.locale,
   Get(Get(formatted, "totals"), "total").intl.locale}
  \cup {Get(Get(formatted, "lineItems").a[i], "quantity").intl.locale :
          i \in DOMAIN Get(formatted, "lineItems").a}
  \cup {Get(Get(formatted, "lineItems").a[i], "amount").intl.locale :
          i \in DOMAIN Get(formatted, "lineItems").a}

CurrencyCodeOf(inv) == Get(Get(inv, "header"), "currency").s

\* currency codes in the table and not in it, in upper, lower and mixed case
LocaleCodes ==
  SUPPORTED_CURRENCIES
  \cup {<<"e", "u", "r">>, <<"E", "u", "r">>, <<"u", "s", "d">>, <<"g", "b", "P">>,
        <<"X", "Y", "Z">>, <<"x", "y", "z">>, <<"h", "r", "k">>, <<"E", "U">>,
        <<"E", "U", "R", "O">>, <<"E", "U", "R", " ">>, <<>>}

\* C23: formatInvoice uses options.locale when it is given and otherwise the
\* locale the currency-to-locale table assigns to the invoice's currency;
\* getLocale does not depend on the case of the code, returns the table
\* entry of a listed code (EUR de-DE, USD en-US, GBP en-GB) and the fallback
\* en-US for every code that is not in the table.  What getLocale returns
\* does not depend on the state, so the table is gone through once, at the
\* start.
C23_Locale ==
  /\ Formatted =>
       LocalesOf(invoice)
         = {IF "locale" \in DOMAIN options THEN options.locale
            ELSE getLocaleForCurrency(CurrencyCodeOf(computed))}
  /\ lastOp = "init" =>
       /\ getLocaleForCurrency(<<"E", "U", "R">>) = "de-DE"
       /\ getLocaleForCurrency(<<"e", "u", "r">>) = "de-DE"
       /\ getLocaleForCurrency(<<"U", "S", "D">>) = "en-US"
       /\ getLocaleForCurrency(<<"G", "B", "P">>) = "en-GB"
       /\ getLocaleForCurrency(<<"g", "b", "P">>) = "en-GB"
       /\ getLocaleForCurrency(<<"X", "Y", "Z">>) = "en-US"
       /\ \A code \in LocaleCodes :
            /\ getLocaleForCurrency(code) = getLocaleForCurrency(toUpperCase(code))
            /\ toUpperCase(code) \in DOMAIN CURRENCY_LOCALE_MAP
                 => getLocaleForCurrency(code) = CURRENCY_LOCALE_MAP[toUpperCase(code)]
            /\ toUpperCase(code) \notin DOMAIN CURRENCY_LOCALE_MAP
                 => getLocaleForCurrency(code) = "en-US"

\* an invoice in US dollars was formatted with the locale given in the
\* options, not the one of the table
C23_Witness ==
  /\ Formatted
  /\ "locale" \in DOMAIN options
  /\ CurrencyCodeOf(computed) = <<"U", "S", "D">>
  /\ LocalesOf(invoice) = {"fr-FR"}

\* -------------------------------------------------------------------------
\* The issues of validateDraft, under Spec
\* -------------------------------------------------------------------------
\* the type IssueCode
IssueCodes ==
  {"MISSING_REQUIRED", "INVALID_TYPE", "INVALID_FORMAT", "INVALID_VALUE", "INVALID_DATE",
   "DATE_ORDER", "EMPTY_ARRAY", "NEGATIVE_NUMBER", "UNKNOWN"}

InputColumns == {<<"d", "e", "s", "c", "r", "i", "p", "t", "i", "o", "n">>, <<"q", "u", "a", "n", "t", "i", "t", "y">>, <<"u", "n", "i", "t", "P", "r", "i", "c", "e">>}

\* path is the path of an input field of the sheet
IsInputPath(path) ==
  \/ \E e \in DOMAIN METADATA_CELLS : METADATA_CELLS[e][1] = path
  \/ \E index \in 0..(MaxRow - 16), field \in InputColumns :
       path = <<"l", "i", "n", "e", "I", "t", "e", "m", "s", "[">> \o NatDigits(index) \o <<"]", ".">> \o field

\* cell holds an input field of the sheet: a metadata cell, or a cell of
\* column A, B or C in row 16 or below it
HoldsInputField(cell) ==
  \/ \E e \in DOMAIN METADATA_CELLS : METADATA_CELLS[e][2] = cell
  \/ /\ Len(cell) > 1
     /\ Head(cell) \in {"A", "B", "C"}
     /\ AllDigits(Tail(cell))
     /\ DigitsValue(cell, 2, Len(cell) - 1) >= 16

\* C26: cellToPath is the exact inverse of pathToCell on the sheet's input
\* fields: cellToPath(pathToCell(p)) = p for every metadata path and every
\* path lineItems[i].description, .quantity, .unitPrice (C18 is
\* lineItems[2].unitPrice); and cellToPath returns undefined for every cell
\* that holds no input field, the cells of the amount column D and unmapped
\* cells such as Z99 included.
C26_CellPathInverse ==
  /\ (lastOp = "pathToCell" /\ IsInputPath(input.s)) => cellToPath(result.s) = input
  /\ (lastOp = "cellToPath" /\ ~HoldsInputField(input.s)) => result = Undefined
  /\ cellToPath(<<"C", "1", "8">>) = Str(<<"l", "i", "n", "e", "I", "t", "e", "m", "s", "[", "2", "]", ".", "u", "n", "i", "t", "P", "r", "i", "c", "e">>)
  /\ cellToPath(<<"Z", "9", "9">>) = Undefined

\* -------------------------------------------------------------------------
\* Failed validations, under Spec
\* -------------------------------------------------------------------------
\* what the group validators and validateLineItem hand back for a raw input
GroupResults(raw) ==
  IF ~isObject(raw) THEN {}
  ELSE {validateBusiness(Get(raw, "business"), "business"),
        validateClient(Get(raw, "client"), "client"),
        validateHeader(Get(raw, "header"), "header"),
        validateLineItems(Get(raw, "lineItems"), "lineItems")}
       \cup (IF isArray(Get(raw, "lineItems"))
             THEN {ItemAt(Get(raw, "lineItems"), "lineItems", i - 1) :
                     i \in 1..Len(Get(raw, "lineItems").a)}
             ELSE {})

\* C27: a validation that failed carries at least one issue, and a group
\* validator (validateLineItem included) hands back undefined only together
\* with at least one issue.
C27_FailureHasIssues ==
  lastOp = "validateDraft" =>
    /\ ~validation.ok => Len(validation.issues) > 0
    /\ \A r \in GroupResults(input) : r.val = Undefined => Len(r.issues) > 0

\* a validation that failed for the client alone, which is no object
C27_Witness ==
  /\ lastOp = "validateDraft"
  /\ isObject(input)
  /\ ~isObject(Get(input, "client"))
  /\ ~validation.ok
  /\ Len(validation.issues) = 1
  /\ validateClient(Get(input, "client"), "client").val = Undefined

\* the paths of a group or line item at base with the given fields
PathsOf(base, fields) == {base} \cup {base \o "." \o f : f \in fields}

\* the place of a path in the order business, client, header, lineItems,
\* lineItems[0], lineItems[1], ...
PathRank(path) ==
  CASE path \in PathsOf("business", {"name", "address", "email", "phone", "logoUrl", "taxId"}) -> 0
    [] path \in PathsOf("client", {"name", "address", "email"}) -> 1
    [] path \in PathsOf("header", {"invoiceNumber", "issueDate", "dueDate", "currency",
                                   "taxRate", "notes"}) -> 2
    [] path = "lineItems" -> 3
    [] OTHER ->
         4 + (CHOOSE i \in 0..MaxItems :
                path \in PathsOf("lineItems[" \o ToString(i) \o "]",
                                 {"description", "quantity", "unitPrice", "unit"}))

\* a sequence of numbers in which no number is followed by a smaller one
NeverDecreases(ranks) == \A i, j \in DOMAIN ranks : i < j => ranks[i] <= ranks[j]

\* C28: in a result of validateDraft no two issues share a path, DATE_ORDER
\* stands at header.dueDate and only when the validation of dueDate itself
\* raised no issue, and the issues come in the order business, client,
\* header, line items by ascending index.
C28_OnePathOneIssue ==
  (lastOp = "validateDraft" /\ ~validation.ok) =>
    LET issues == validation.issues
    IN IF ~isObject(input) THEN Len(issues) = 1
       ELSE
         /\ \A i, j \in DOMAIN issues : i < j => issues[i].path # issues[j].path
         /\ NeverDecreases([i \in DOMAIN issues |-> PathRank(issues[i].path)])
         /\ \A i \in DOMAIN issues :
              issues[i].code = "DATE_ORDER" =>
                /\ issues[i].path = "header.dueDate"
                /\ validateIsoDate(HeaderOf(input), "dueDate", "header.dueDate", FALSE).issues
                     = <<>>

\* a validation with issues in every group and in two line items
C28_Witness ==
  /\ lastOp = "validateDraft"
  /\ isObject(input)
  /\ ~validation.ok
  /\ {PathRank(validation.issues[i].path) : i \in DOMAIN validation.issues} = {0, 1, 2, 4, 5}
  /\ \E i, j \in DOMAIN validation.issues :
       /\ i < j
       /\ PathRank(validation.issues[i].path) = PathRank(validation.issues[j].path)

C30_TablesConsistent ==
  (Formatted /\ validation.ok /\ "locale" \notin DOMAIN options) =>
    /\ CurrencyCodeOf(computed) \in SUPPORTED_CURRENCIES
    /\ CurrencyCodeOf(computed) \in DOMAIN CURRENCY_LOCALE_MAP
    /\ LocalesOf(invoice) = {CURRENCY_LOCALE_MAP[CurrencyCodeOf(computed)]}

====
